---- MODULE Spec2Model ----
(***************************************************************************)
(* Execution layer of the strategy research core: paper broker, execution  *)
(* gateway, portfolio engine and portfolio lifecycle manager.              *)
(*                                                                         *)
(* Money, prices and share quantities are Python floats in the source.     *)
(* They are modelled as exact rationals [n |-> numerator, d |-> denom],    *)
(* always kept in lowest terms with d > 0, so that equality of two amounts *)
(* is equality of the records.                                             *)
(***************************************************************************)
EXTENDS Integers, Sequences, FiniteSets, TLC

----------------------------------------------------------------------------
(* Bounds of the model *)

MaxCalls == 4

MaxCandles == 3

MaxSteps == 4

MaxRuns == 2

MaxResults == 3

DrawWidth == 2

MaxGenerations == 2

MaxHistory == 7

----------------------------------------------------------------------------
(* Exact arithmetic standing for the float operators of the source *)

Abs(x) == IF x < 0 THEN -x ELSE x

RECURSIVE GCD(_, _)
GCD(a, b) == IF b = 0 THEN a ELSE GCD(b, a % b)

Rat(n, d) ==
    LET s == IF d < 0 THEN -1 ELSE 1
        g == GCD(Abs(n), Abs(d))
    IN  [n |-> (s * n) \div g, d |-> (s * d) \div g]

Num(k) == [n |-> k, d |-> 1]

Zero == Num(0)

One == Num(1)

RAdd(a, b) == Rat(a.n * b.d + b.n * a.d, a.d * b.d)

RSub(a, b) == Rat(a.n * b.d - b.n * a.d, a.d * b.d)

RMul(a, b) == Rat(a.n * b.n, a.d * b.d)

RDiv(a, b) == Rat(a.n * b.d, a.d * b.n)

RLt(a, b) == a.n * b.d < b.n * a.d

RLe(a, b) == a.n * b.d <= b.n * a.d

RMin(a, b) == IF RLe(a, b) THEN a ELSE b

----------------------------------------------------------------------------
(* execution.order *)

BUY == "BUY"

SELL == "SELL"

HOLD == "HOLD"

\* Order.__init__ stores side, quantity and price as given: no validation.
Order(side, quantity, price) ==
    [side |-> side, quantity |-> quantity, price |-> price]

Fill(side, quantity, price, cash_change, position_change) ==
    [side |-> side, quantity |-> quantity, price |-> price,
     cash_change |-> cash_change, position_change |-> position_change]

NoFill == [side |-> "NONE"]

----------------------------------------------------------------------------
(* execution.paper_broker *)

\* PaperBroker.__init__ (initial_cash > 0 and slippage_pct >= 0 are enforced
\* by the constructor; the model only builds brokers that pass).
PaperBroker(initial_cash, slippage_pct) ==
    [cash |-> initial_cash, position_size |-> Zero,
     slippage_pct |-> slippage_pct]

\* The result of a call: ok = FALSE stands for the raised ValueError.
Raised(b) == [ok |-> FALSE, broker |-> b, fill |-> NoFill]

\* A broker that debits the cash before it checks the funds.
ExecuteBuyEager(b, order) ==
    LET execution_price == RMul(order.price, RAdd(One, b.slippage_pct))
        cost == RMul(execution_price, order.quantity)
    IN  IF RLt(b.cash, cost)
        THEN [ok |-> FALSE,
              broker |-> [b EXCEPT !.cash = RSub(b.cash, cost)],
              fill |-> NoFill]
        ELSE [ok |-> TRUE,
              broker |-> [b EXCEPT !.cash = RSub(b.cash, cost),
                                   !.position_size =
                                       RAdd(b.position_size, order.quantity)],
              fill |-> Fill(BUY, order.quantity, execution_price,
                            RSub(Zero, cost), order.quantity)]

ExecuteBuy(b, order) ==
    LET execution_price == RMul(order.price, RAdd(One, b.slippage_pct))
        cost == RMul(execution_price, order.quantity)
    IN  IF RLt(b.cash, cost)
        THEN Raised(b)
        ELSE [ok |-> TRUE,
              broker |-> [b EXCEPT !.cash = RSub(b.cash, cost),
                                   !.position_size =
                                       RAdd(b.position_size, order.quantity)],
              fill |-> Fill(BUY, order.quantity, execution_price,
                            RSub(Zero, cost), order.quantity)]

ExecuteSell(b, order) ==
    IF RLt(b.position_size, order.quantity)
    THEN Raised(b)
    ELSE LET execution_price == RMul(order.price, RSub(One, b.slippage_pct))
             proceeds == RMul(execution_price, order.quantity)
         IN  [ok |-> TRUE,
              broker |-> [b EXCEPT !.position_size =
                                       RSub(b.position_size, order.quantity),
                                   !.cash = RAdd(b.cash, proceeds)],
              fill |-> Fill(SELL, order.quantity, execution_price,
                            proceeds, RSub(Zero, order.quantity))]

ExecuteOrder(b, order) ==
    IF order.side = BUY THEN ExecuteBuy(b, order)
    ELSE IF order.side = SELL THEN ExecuteSell(b, order)
    ELSE Raised(b)

----------------------------------------------------------------------------
(* execution.risk_manager *)

NoRiskManager == [present |-> FALSE, max_position_pct |-> One]

RiskManager(max_position_pct) ==
    [present |-> TRUE, max_position_pct |-> max_position_pct]

\* An adjust_order that also caps an order that is exactly at the limit.
AdjustOrderStrict(rm, order, equity) ==
    IF RLt(equity, Zero)
    THEN [ok |-> FALSE, order |-> order, created |-> FALSE]
    ELSE IF order.side # BUY
    THEN [ok |-> TRUE, order |-> order, created |-> FALSE]
    ELSE LET max_value == RMul(equity, rm.max_position_pct)
             max_quantity == IF RLt(Zero, order.price)
                             THEN RDiv(max_value, order.price) ELSE Zero
             adjusted_qty == RMin(order.quantity, max_quantity)
         IN  IF RLt(order.quantity, adjusted_qty)
             THEN [ok |-> TRUE, order |-> order, created |-> FALSE]
             ELSE [ok |-> TRUE, created |-> TRUE,
                   order |-> Order(order.side, adjusted_qty, order.price)]

\* ok = FALSE stands for the ValueError raised on a negative equity;
\* created tells whether the result is a new Order object.
AdjustOrder(rm, order, equity) ==
    IF RLt(equity, Zero)
    THEN [ok |-> FALSE, order |-> order, created |-> FALSE]
    ELSE IF order.side # BUY
    THEN [ok |-> TRUE, order |-> order, created |-> FALSE]
    ELSE LET max_value == RMul(equity, rm.max_position_pct)
             max_quantity == IF RLt(Zero, order.price)
                             THEN RDiv(max_value, order.price) ELSE Zero
             adjusted_qty == RMin(order.quantity, max_quantity)
         IN  IF RLe(order.quantity, adjusted_qty)
             THEN [ok |-> TRUE, order |-> order, created |-> FALSE]
             ELSE [ok |-> TRUE, created |-> TRUE,
                   order |-> Order(order.side, adjusted_qty, order.price)]

\* An Order object: the id Order.__init__ draws with uuid4, the timestamp
\* and the fields.
OrderObject(id, timestamp, fields) ==
    [id |-> id, timestamp |-> timestamp, fields |-> fields]

\* adjust_order on an Order object; uuid is the id a new Order would draw.
AdjustObject(rm, obj, equity, uuid) ==
    IF ~AdjustOrder(rm, obj.fields, equity).ok
    THEN [raised |-> "ValueError", order |-> obj]
    ELSE IF AdjustOrder(rm, obj.fields, equity).created
    THEN [raised |-> "none",
          order |-> OrderObject(uuid, obj.timestamp,
                                AdjustOrder(rm, obj.fields, equity).order)]
    ELSE [raised |-> "none", order |-> obj]

----------------------------------------------------------------------------
(* Strategy classes: the gateway instantiates the class it is given and    *)
(* calls generate_signal once per candle.                                  *)

StrategyClasses == {"AlwaysBuyHold", "AlwaysFlat", "BuySellAlternate"}

NewStrategy(cls) == [cls |-> cls, called |-> FALSE, count |-> 0]

\* generate_signal: the signal and the instance after the call.
GenerateSignal(inst, candle) ==
    IF inst.cls = "AlwaysBuyHold"
    THEN [signal |-> IF inst.called THEN HOLD ELSE BUY,
          inst |-> [inst EXCEPT !.called = TRUE]]
    ELSE IF inst.cls = "BuySellAlternate"
    THEN [signal |-> IF inst.count % 2 = 0 THEN BUY ELSE SELL,
          inst |-> [inst EXCEPT !.count = inst.count + 1]]
    ELSE [signal |-> HOLD, inst |-> inst]

----------------------------------------------------------------------------
(* execution.execution_gateway *)

Candle(close) == [has_close |-> TRUE, close |-> close]

NoCloseCandle == [has_close |-> FALSE, close |-> Zero]

ExecutionGateway(strategy_class, b, risk_manager) ==
    [strategy |-> NewStrategy(strategy_class),
     broker |-> b,
     risk_manager |-> risk_manager,
     state |-> "FLAT",
     current_price |-> Zero,
     equity_curve |-> <<>>,
     trade_history |-> <<>>]

Equity(gw, price) ==
    RAdd(gw.broker.cash, RMul(gw.broker.position_size, price))

Trade(type, fill, cash_after) ==
    [type |-> type, price |-> fill.price, shares |-> fill.quantity,
     cash_after |-> cash_after]

\* The outcome of one on_candle call: raised is "none" when it returned;
\* fill is the fill the broker executed during the call (NoFill if none);
\* brokerFailed tells that execute_order raised during the call.
Outcome(raised, gw, fill, brokerFailed) ==
    [raised |-> raised, gw |-> gw, fill |-> fill,
     brokerFailed |-> brokerFailed]

\* self._equity_curve.append(self._equity(price))
AppendEquity(g, price) ==
    [g EXCEPT !.equity_curve = Append(g.equity_curve, Equity(g, price))]

\* A gateway that changes its state although the broker refused the order,
\* and carries on.
FilledSwallow(g, price, type, state, r) ==
    IF ~r.ok
    THEN Outcome("none", AppendEquity([g EXCEPT !.state = state], price),
                 NoFill, TRUE)
    ELSE Outcome("none",
                 AppendEquity([g EXCEPT
                                 !.broker = r.broker,
                                 !.state = state,
                                 !.trade_history =
                                     Append(g.trade_history,
                                            Trade(type, r.fill,
                                                  r.broker.cash))],
                              price),
                 r.fill, FALSE)

\* What follows fill = self._broker.execute_order(order), r being the
\* result of that call: a raise leaves on_candle at once; a fill changes the
\* state, is recorded, and the equity is appended.
Filled(g, price, type, state, r) ==
    IF ~r.ok
    THEN Outcome("ValueError", g, NoFill, TRUE)
    ELSE Outcome("none",
                 AppendEquity([g EXCEPT
                                 !.broker = r.broker,
                                 !.state = state,
                                 !.trade_history =
                                     Append(g.trade_history,
                                            Trade(type, r.fill,
                                                  r.broker.cash))],
                              price),
                 r.fill, FALSE)

\* All-in: quantity = cash / price.
AllInOrder(g, price) == Order(BUY, RDiv(g.broker.cash, price), price)

\* The order after the risk manager, if there is one.
Adjusted(g, price) ==
    IF g.risk_manager.present
    THEN AdjustOrder(g.risk_manager, AllInOrder(g, price), Equity(g, price))
    ELSE [ok |-> TRUE, order |-> AllInOrder(g, price), created |-> FALSE]

BuyWith(g, price, adj) ==
    IF ~adj.ok THEN Outcome("ValueError", g, NoFill, FALSE)
    ELSE Filled(g, price, "BUY", "LONG", ExecuteOrder(g.broker, adj.order))

\* The BUY branch of on_candle (signal BUY, state FLAT), price > 0.
GatewayBuy(g, price) == BuyWith(g, price, Adjusted(g, price))

\* The SELL branch of on_candle (signal SELL, state LONG).
GatewaySell(g, price) ==
    Filled(g, price, "SELL", "FLAT",
           ExecuteOrder(g.broker,
                        Order(SELL, g.broker.position_size, price)))

\* on_candle after the close check, g carrying the new current price and
\* the strategy instance after generate_signal.
Dispatch(g, price, signal) ==
    IF signal = BUY /\ g.state = "FLAT" THEN GatewayBuy(g, price)
    ELSE IF signal = SELL /\ g.state = "LONG" THEN GatewaySell(g, price)
    ELSE Outcome("none", AppendEquity(g, price), NoFill, FALSE)

\* A dispatch that acts on the signal whatever the gateway state is.
OnCandleUnguarded(gw, candle, sg) ==
    IF ~candle.has_close THEN Outcome("KeyError", gw, NoFill, FALSE)
    ELSE IF sg.signal = BUY
    THEN GatewayBuy([gw EXCEPT !.current_price = candle.close,
                               !.strategy = sg.inst], candle.close)
    ELSE IF sg.signal = SELL
    THEN GatewaySell([gw EXCEPT !.current_price = candle.close,
                                !.strategy = sg.inst], candle.close)
    ELSE Outcome("none",
                 AppendEquity([gw EXCEPT !.current_price = candle.close,
                                         !.strategy = sg.inst],
                              candle.close),
                 NoFill, FALSE)

\* on_candle with the strategy's answer sg = [signal, inst] given.
OnCandleWith(gw, candle, sg) ==
    IF ~candle.has_close THEN Outcome("KeyError", gw, NoFill, FALSE)
    ELSE Dispatch([gw EXCEPT !.current_price = candle.close,
                             !.strategy = sg.inst],
                  candle.close, sg.signal)

OnCandle(gw, candle) ==
    OnCandleWith(gw, candle,
                 IF candle.has_close THEN GenerateSignal(gw.strategy, candle)
                 ELSE [signal |-> HOLD, inst |-> gw.strategy])

----------------------------------------------------------------------------
(* execution.market_loop *)

\* get_state: the snapshot of the gateway.
GetState(gw) ==
    [cash |-> gw.broker.cash,
     position_size |-> gw.broker.position_size,
     equity |-> Equity(gw, gw.current_price),
     equity_curve |-> gw.equity_curve,
     trade_history |-> gw.trade_history,
     state |-> gw.state]

NoState == [state |-> "NONE"]

RECURSIVE MarketLoopFrom(_, _, _)

\* A loop that skips the candle after each candle it fed.
LoopNextSkipping(candles, i, o) ==
    IF o.raised # "none" THEN [raised |-> o.raised, gw |-> o.gw]
    ELSE MarketLoopFrom(o.gw, candles, i + 2)

\* The loop of MarketLoop.run after on_candle answered candle i with
\* outcome o: an exception leaves run.
LoopNext(candles, i, o) ==
    IF o.raised # "none" THEN [raised |-> o.raised, gw |-> o.gw]
    ELSE MarketLoopFrom(o.gw, candles, i + 1)

\* for candle in candles: self._gateway.on_candle(candle), from candle i on.
MarketLoopFrom(gw, candles, i) ==
    IF i > Len(candles) THEN [raised |-> "none", gw |-> gw]
    ELSE LoopNext(candles, i, OnCandle(gw, candles[i]))

\* What run leaves and returns, r being the result of its loop.
LoopReport(r) ==
    [raised |-> r.raised, gw |-> r.gw,
     state |-> IF r.raised = "none" THEN GetState(r.gw) ELSE NoState]

\* MarketLoop(gateway).run(candles)
MarketLoopRun(gw, candles) == LoopReport(MarketLoopFrom(gw, candles, 1))

----------------------------------------------------------------------------
(* execution.portfolio_engine *)

RECURSIVE SumSeq(_)
SumSeq(xs) == IF xs = <<>> THEN Zero ELSE RAdd(Head(xs), SumSeq(Tail(xs)))

\* An engine that keeps one share of the capital aside.
PortfolioEngineReserve(strategies, initial_capital, risk_manager) ==
    LET capital_per == RDiv(initial_capital, Num(Len(strategies) + 1))
    IN  [kind |-> "PortfolioEngine",
         strategies |-> strategies,
         initial_capital |-> initial_capital,
         gateways |-> [i \in 1..Len(strategies) |->
                          ExecutionGateway(strategies[i],
                                           PaperBroker(capital_per, Zero),
                                           risk_manager)],
         portfolio_equity_curve |-> <<>>,
         last_price |-> Zero]

PortfolioEngine(strategies, initial_capital, risk_manager) ==
    LET capital_per == RDiv(initial_capital, Num(Len(strategies)))
    IN  [kind |-> "PortfolioEngine",
         strategies |-> strategies,
         initial_capital |-> initial_capital,
         gateways |-> [i \in 1..Len(strategies) |->
                          ExecutionGateway(strategies[i],
                                           PaperBroker(capital_per, Zero),
                                           risk_manager)],
         portfolio_equity_curve |-> <<>>,
         last_price |-> Zero]

RECURSIVE FeedGateways(_, _, _)

\* The gateway loop after gateway i answered with outcome o.
FeedNext(gws, candle, i, o) ==
    IF o.raised # "none"
    THEN [ok |-> FALSE, gateways |-> [gws EXCEPT ![i] = o.gw]]
    ELSE FeedGateways([gws EXCEPT ![i] = o.gw], candle, i + 1)

\* for gateway in self._gateways: gateway.on_candle(candle), from gateway i
\* on; a raise leaves the later gateways untouched.
FeedGateways(gws, candle, i) ==
    IF i > Len(gws) THEN [ok |-> TRUE, gateways |-> gws]
    ELSE FeedNext(gws, candle, i, OnCandle(gws[i], candle))

\* An aggregation that counts the cash and leaves the positions out.
MarkToMarketCashOnly(gws, price) ==
    SumSeq([i \in 1..Len(gws) |-> gws[i].broker.cash])

\* sum(broker.cash + broker.position_size * price for broker in brokers)
MarkToMarket(gws, price) ==
    SumSeq([i \in 1..Len(gws) |-> Equity(gws[i], price)])

RECURSIVE RunCandles(_, _, _)

\* The candle loop after the gateways were fed candle i with result f.
RunFed(e, candles, i, f) ==
    IF ~f.ok
    THEN [ok |-> FALSE,
          engine |-> [e EXCEPT !.last_price = candles[i].close,
                               !.gateways = f.gateways]]
    ELSE RunCandles(
           [e EXCEPT !.last_price = candles[i].close,
                     !.gateways = f.gateways,
                     !.portfolio_equity_curve =
                         Append(e.portfolio_equity_curve,
                                MarkToMarket(f.gateways, candles[i].close))],
           candles, i + 1)

\* The candle loop of PortfolioEngine.run, from candle i on.
RunCandles(e, candles, i) ==
    IF i > Len(candles) THEN [ok |-> TRUE, engine |-> e]
    ELSE IF ~candles[i].has_close THEN [ok |-> FALSE, engine |-> e]
    ELSE RunFed(e, candles, i, FeedGateways(e.gateways, candles[i], 1))

\* The report of run, r being the result of the candle loop.
RunReport(r) ==
    [ok |-> r.ok, engine |-> r.engine,
     portfolio_equity |->
         MarkToMarket(r.engine.gateways, r.engine.last_price),
     portfolio_equity_curve |-> r.engine.portfolio_equity_curve]

\* The entry of a gateway in the strategies dict of the report.
StrategyState(gw) ==
    [cash |-> GetState(gw).cash,
     position_size |-> GetState(gw).position_size,
     equity |-> GetState(gw).equity,
     trade_history |-> GetState(gw).trade_history]

\* The strategies dict of the report: keyed by the name of the strategy
\* class, the last gateway of a name overwrites the earlier ones.
StrategiesState(e) ==
    [name \in {e.strategies[i] : i \in 1..Len(e.strategies)} |->
        StrategyState(
            e.gateways[CHOOSE i \in 1..Len(e.strategies) :
                          /\ e.strategies[i] = name
                          /\ \A j \in 1..Len(e.strategies) :
                                 e.strategies[j] = name => j <= i])]

\* PortfolioEngine.run: the aggregated curve is reset, the brokers, the
\* gateways and the strategy instances are the ones built by __init__.
PortfolioRun(e, candles) ==
    RunReport(RunCandles([e EXCEPT !.portfolio_equity_curve = <<>>],
                         candles, 1))

----------------------------------------------------------------------------
(* execution.rebalance_policy, execution.decay_detector,                   *)
(* execution.capital_allocator                                             *)

\* A policy that asks for a rebalance at every step.
ShouldRebalanceAlways(interval, step) == step % 1 = 0

ShouldRebalance(interval, step) == step % interval = 0

NoDecayDetector == [present |-> FALSE, threshold |-> 0, metric |-> "sharpe"]

PerformanceDecayDetector(threshold, metric) ==
    [present |-> TRUE, threshold |-> threshold, metric |-> metric]

\* A ranking result: strategy_name, backtest.sharpe_ratio and robustness.
RankingResult(name, sharpe, robustness) ==
    [strategy_name |-> name, sharpe_ratio |-> sharpe,
     robustness |-> robustness]

IsDecayed(dd, result) ==
    IF dd.metric = "sharpe" THEN result.sharpe_ratio < dd.threshold
    ELSE result.robustness < dd.threshold

Names(results) == {results[i].strategy_name : i \in 1..Len(results)}

\* The value of the last result carrying the name: a dict comprehension
\* keeps the last one.
LastOf(results, name) ==
    LET idx == {i \in 1..Len(results) : results[i].strategy_name = name}
        last == CHOOSE i \in idx : \A j \in idx : j <= i
    IN  results[last]

RECURSIVE SumInts(_, _)
SumInts(f, S) ==
    IF S = {} THEN 0
    ELSE LET x == CHOOSE y \in S : TRUE IN f[x] + SumInts(f, S \ {x})

EqualWeights(results) ==
    [name \in Names(results) |-> Rat(1, Len(results))]

MetricWeights(results, value) ==
    LET metric == [name \in Names(results) |-> value[name]]
        positive == {name \in Names(results) : metric[name] > 0}
        total == SumInts(metric, positive)
    IN  IF positive = {} THEN EqualWeights(results)
        ELSE [name \in Names(results) |->
                 IF name \in positive THEN Rat(metric[name], total)
                 ELSE Zero]

\* CapitalAllocator(mode).compute_weights, called on a non-empty list.
ComputeWeights(mode, results) ==
    IF mode = "equal" THEN EqualWeights(results)
    ELSE IF mode = "sharpe"
    THEN MetricWeights(results,
            [name \in Names(results) |-> LastOf(results, name).sharpe_ratio])
    ELSE MetricWeights(results,
            [name \in Names(results) |-> LastOf(results, name).robustness])

\* compute_weights: an empty list raises ValueError.
CapitalAllocatorCompute(mode, results) ==
    IF results = <<>> THEN [raised |-> "ValueError", weights |-> <<>>]
    ELSE [raised |-> "none", weights |-> ComputeWeights(mode, results)]

----------------------------------------------------------------------------
(* execution.portfolio_lifecycle_manager                                   *)

\* weights.get(name, 0.0)
WeightOf(weights, name) ==
    IF name \in DOMAIN weights THEN weights[name] ELSE Zero

RECURSIVE WeightedEngines(_, _, _, _)
WeightedEngines(strategies, weights, initial_capital, i) ==
    IF i > Len(strategies) THEN <<>>
    ELSE LET capital == RMul(initial_capital,
                             WeightOf(weights, strategies[i]))
             rest == WeightedEngines(strategies, weights, initial_capital,
                                     i + 1)
         IN  IF RLt(Zero, capital)
             THEN <<PortfolioEngine(<<strategies[i]>>, capital,
                                    NoRiskManager)>> \o rest
             ELSE rest

\* _WeightedPortfolioEngine.__init__
WeightedPortfolioEngine(strategies, weights, initial_capital) ==
    LET engines == WeightedEngines(strategies, weights, initial_capital, 1)
        n == Len(strategies)
    IN  [kind |-> "_WeightedPortfolioEngine",
         engines |->
             IF engines # <<>> THEN engines
             ELSE [i \in 1..n |->
                     PortfolioEngine(<<strategies[i]>>,
                                     RDiv(initial_capital, Num(n)),
                                     NoRiskManager)],
         candle_history |-> <<>>]

\* _WeightedPortfolioEngine.step
WeightedStep(w, candle) ==
    [w EXCEPT !.candle_history = Append(w.candle_history, candle)]

RECURSIVE RunEngines(_, _, _, _)

\* The loop of current_equity after engine i ran with report r.
RunEnginesNext(engines, history, i, total, r) ==
    IF ~r.ok
    THEN [ok |-> FALSE, engines |-> [engines EXCEPT ![i] = r.engine],
          total |-> total]
    ELSE RunEngines([engines EXCEPT ![i] = r.engine], history, i + 1,
                    RAdd(total, r.portfolio_equity))

\* The loop of current_equity from engine i on: every sub-engine runs the
\* whole candle history again.
RunEngines(engines, history, i, total) ==
    IF i > Len(engines)
    THEN [ok |-> TRUE, engines |-> engines, total |-> total]
    ELSE RunEnginesNext(engines, history, i, total,
                        PortfolioRun(engines[i], history))

EquityResult(w, r) ==
    [ok |-> r.ok, engine |-> [w EXCEPT !.engines = r.engines],
     total |-> r.total]

\* _WeightedPortfolioEngine.current_equity
WeightedCurrentEquity(w) ==
    IF w.candle_history = <<>>
    THEN [ok |-> TRUE, engine |-> w,
          total |-> SumSeq([i \in 1..Len(w.engines) |->
                               w.engines[i].initial_capital])]
    ELSE EquityResult(w, RunEngines(w.engines, w.candle_history, 1, Zero))

FeedResult(r) ==
    [raised |-> IF r.ok THEN "none" ELSE "ValueError",
     engine |-> r.engine, equity |-> r.total]

\* current_engine.step(candle); current_engine.current_equity().
\* PortfolioEngine has no step method: the call raises AttributeError.
FeedCurrentEngine(engine, candle) ==
    IF engine.kind = "PortfolioEngine"
    THEN [raised |-> "AttributeError", engine |-> engine, equity |-> Zero]
    ELSE FeedResult(WeightedCurrentEquity(WeightedStep(engine, candle)))

InSeq(x, xs) == \E k \in 1..Len(xs) : xs[k] = x

\* Decay detection over the ranking results, in order, from result i on.
RECURSIVE DetectDecay(_, _, _, _)
DetectDecay(dd, results, disabled, i) ==
    IF i > Len(results) THEN disabled
    ELSE DetectDecay(dd, results,
                     IF /\ ~InSeq(results[i].strategy_name, disabled)
                        /\ IsDecayed(dd, results[i])
                     THEN Append(disabled, results[i].strategy_name)
                     ELSE disabled,
                     i + 1)

\* A decay detection that starts from an empty list at every rebalance.
DisabledFresh(c, disabled_names, ranking_results) ==
    IF c.decay_detector.present
    THEN DetectDecay(c.decay_detector, ranking_results, <<>>, 1)
    ELSE disabled_names

\* Step 2: the disabled names after the decay detection.
Disabled(c, disabled_names, ranking_results) ==
    IF c.decay_detector.present
    THEN DetectDecay(c.decay_detector, ranking_results, disabled_names, 1)
    ELSE disabled_names

Kept(strategies, disabled) ==
    SelectSeq(strategies, LAMBDA s : ~InSeq(s, disabled))

\* Step 3: the original strategies minus the disabled ones, or all of them.
NewActive(strategies, disabled) ==
    IF Kept(strategies, disabled) = <<>> THEN strategies
    ELSE Kept(strategies, disabled)

ActiveResults(ranking_results, active) ==
    SelectSeq(ranking_results, LAMBDA r : InSeq(r.strategy_name, active))

\* Step 4: the weights of the active strategies.
Weights(mode, ranking_results, active) ==
    IF ActiveResults(ranking_results, active) # <<>>
    THEN ComputeWeights(mode, ActiveResults(ranking_results, active))
    ELSE [name \in {active[i] : i \in 1..Len(active)} |->
             Rat(1, Len(active))]

\* Step 5: the new engine.
Rebuilt(c, ranking_results, disabled, active) ==
    [disabled_names |-> disabled,
     active_strategies |-> active,
     engine |-> WeightedPortfolioEngine(
                    active, Weights(c.allocator, ranking_results, active),
                    c.initial_capital)]

\* Steps 2 to 5 of a rebalance whose ranking returned, the disabled names
\* after step 2 being given.
RebalanceWith(c, ranking_results, disabled) ==
    Rebuilt(c, ranking_results, disabled, NewActive(c.strategies, disabled))

Rebalance(c, disabled_names, ranking_results) ==
    RebalanceWith(c, ranking_results,
                  Disabled(c, disabled_names, ranking_results))

----------------------------------------------------------------------------
(* ai.strategy_genome *)

GENOME_TYPES == <<"moving_average", "rsi", "breakout">>

\* The parameters of a genome type, in the order GENOME_BOUNDS lists them.
ParamNames(gtype) ==
    IF gtype = "moving_average" THEN <<"short", "long">>
    ELSE IF gtype = "rsi" THEN <<"period", "overbought", "oversold">>
    ELSE IF gtype = "breakout" THEN <<"window">>
    ELSE <<>>

\* GENOME_BOUNDS[gtype][param] = (lo, hi)
GENOME_BOUNDS(gtype, param) ==
    IF gtype = "moving_average"
    THEN (IF param = "short" THEN <<2, 50>> ELSE <<10, 200>>)
    ELSE IF gtype = "rsi"
    THEN (IF param = "period" THEN <<5, 30>>
          ELSE IF param = "overbought" THEN <<60, 90>> ELSE <<10, 40>>)
    ELSE <<5, 60>>

ParamSet(gtype) == {ParamNames(gtype)[i] : i \in 1..Len(ParamNames(gtype))}

\* A genome: its type and its parameters.
Genome(gtype, params) == [type |-> gtype, params |-> params]

\* validate_genome: TRUE when it returns, FALSE when it raises ValueError.
ValidateGenome(genome) ==
    /\ InSeq(genome.type, GENOME_TYPES)
    /\ \A p \in ParamSet(genome.type) :
           /\ p \in DOMAIN genome.params
           /\ GENOME_BOUNDS(genome.type, p)[1] <= genome.params[p]
           /\ genome.params[p] <= GENOME_BOUNDS(genome.type, p)[2]

----------------------------------------------------------------------------
(* ai.mutation_engine: the draws of the random generator are free choices  *)

Max(a, b) == IF a >= b THEN a ELSE b

\* rng.randint(lo, hi): an integer of lo..hi; the model draws among the
\* DrawWidth lowest and the DrawWidth highest ones.
RandInt(lo, hi) == {v \in lo..hi : v - lo < DrawWidth \/ hi - v < DrawWidth}

\* rng.random() < rate can hold, and can fail, for a draw of [0, 1).
MayHold(rate) == RLt(Zero, rate)

MayFail(rate) == RLt(rate, One)

\* The values a parameter can have after the mutation loop.
ParamChoices(genome, rate, p) ==
    (IF MayFail(rate) THEN {genome.params[p]} ELSE {})
        \cup (IF MayHold(rate)
              THEN RandInt(GENOME_BOUNDS(genome.type, p)[1],
                           GENOME_BOUNDS(genome.type, p)[2])
              ELSE {})

\* The genomes the mutation loop can leave.
Tweaked(genome, rate) ==
    {Genome(genome.type, ps) :
        ps \in {f \in [ParamSet(genome.type) ->
                          UNION {ParamChoices(genome, rate, p) :
                                    p \in ParamSet(genome.type)}] :
                   \A p \in ParamSet(genome.type) :
                       f[p] \in ParamChoices(genome, rate, p)}}

\* A mutation that leaves short >= long as it is.
EnforceNothing(mutated) == {mutated}

\* The moving_average constraint: short and long are drawn again when
\* short >= long.
Enforce(mutated) ==
    IF mutated.type = "moving_average"
       /\ mutated.params["short"] >= mutated.params["long"]
    THEN UNION {{Genome("moving_average",
                        [mutated.params EXCEPT !["short"] = sh,
                                               !["long"] = lg]) :
                    lg \in RandInt(Max(sh + 1, 10), 200)} :
                  sh \in RandInt(2, 50)}
    ELSE {mutated}

\* The genomes mutate can return for a genome that validate_genome accepts.
MutateOutcomes(genome, rate) ==
    UNION {Enforce(m) : m \in Tweaked(genome, rate)}

----------------------------------------------------------------------------
(* app.backtester.engine *)

Sign(k) == IF k > 0 THEN 1 ELSE IF k < 0 THEN -1 ELSE 0

RAbs(a) == Rat(Abs(a.n), a.d)

\* sign * sqrt(sq), for a rational sq >= 0: the floats that come out of
\* math.sqrt are kept exact this way.
Surd(sign, sq) == [sign |-> IF sq = Zero THEN 0 ELSE sign, sq |-> sq]

NoSurd == Surd(0, Zero)

\* The sign of c + t * sqrt(q).
SurdSign(c, t, q) ==
    IF q = Zero \/ t = 0 THEN Sign(c.n)
    ELSE IF Sign(c.n) = 0 \/ Sign(c.n) = t THEN t
    ELSE IF RLt(q, RMul(c, c)) THEN Sign(c.n)
    ELSE IF RLt(RMul(c, c), q) THEN t
    ELSE 0

RECURSIVE MaxDrawdownFrom(_, _, _, _)
\* The peak and drawdown loop of run, from entry i of the curve on.
MaxDrawdownFrom(curve, i, peak, max_drawdown_pct) ==
    IF i > Len(curve) THEN max_drawdown_pct
    ELSE LET pk == IF RLt(peak, curve[i]) THEN curve[i] ELSE peak
             dd == RMul(RDiv(RSub(curve[i], pk), pk), Num(100))
         IN  MaxDrawdownFrom(curve, i + 1, pk,
                             IF RLt(dd, max_drawdown_pct) THEN dd
                             ELSE max_drawdown_pct)

BacktestRaised(exception) == [bound |-> TRUE, raised |-> exception]

\* The statistics of run, the final equity, the equity curve and the
\* returns being given.
BacktestStats(initial_cash, final_equity, equity_curve, returns_series) ==
    LET n == Len(returns_series)
        mean_return == RDiv(SumSeq(returns_series), Num(n))
        variance ==
            RDiv(SumSeq([i \in 1..n |->
                            RMul(RSub(returns_series[i], mean_return),
                                 RSub(returns_series[i], mean_return))]),
                 Num(n - 1))
    IN  [bound |-> TRUE, raised |-> "none",
         final_equity |-> final_equity,
         return_pct |-> RMul(RDiv(RSub(final_equity, initial_cash),
                                  initial_cash), Num(100)),
         equity_curve |-> equity_curve,
         max_drawdown_pct |->
             MaxDrawdownFrom(equity_curve, 1, equity_curve[1], Zero),
         returns_series |-> returns_series,
         volatility_pct |-> Surd(1, RMul(variance, Num(10000))),
         sharpe_ratio |->
             IF variance = Zero THEN NoSurd
             ELSE Surd(Sign(mean_return.n),
                       RDiv(RMul(mean_return, mean_return), variance))]

\* The drawdown loop and the returns of run, the final equity and the
\* equity curve being given: both divide by entries of the curve.
BacktestReturns(initial_cash, final_equity, equity_curve) ==
    IF \E i \in 1..(Len(equity_curve) - 1) : equity_curve[i] = Zero
    THEN BacktestRaised("ZeroDivisionError")
    ELSE BacktestStats(initial_cash, final_equity, equity_curve,
                       [i \in 1..Len(equity_curve) |->
                           IF i = 1 THEN Zero
                           ELSE RDiv(RSub(equity_curve[i],
                                          equity_curve[i - 1]),
                                     equity_curve[i - 1])])

\* An equity curve that values every candle at the first close.
BacktestCurveFlat(shares, candles) ==
    [i \in 1..Len(candles) |-> RMul(shares, candles[1].close)]

\* equity_curve = [shares * c["close"] for c in candles]
BacktestCurve(shares, candles) ==
    [i \in 1..Len(candles) |-> RMul(shares, candles[i].close)]

\* 1 - pct / 100
LessPct(pct) == RSub(One, RDiv(pct, Num(100)))

\* The exit of run, the shares bought being given.
BacktestExit(initial_cash, candles, shares, transaction_cost_pct, sell_price) ==
    BacktestReturns(initial_cash,
                    RMul(RMul(shares, sell_price),
                         LessPct(transaction_cost_pct)),
                    BacktestCurve(shares, candles))

\* Backtester(initial_cash).run(candles, transaction_cost_pct=...,
\* slippage_pct=...): buy at the first close, hold, value at every close,
\* sell at the last close.
BacktesterRunWith(initial_cash, candles, transaction_cost_pct, slippage_pct) ==
    IF Len(candles) < 2 THEN BacktestRaised("ValueError")
    ELSE IF ~candles[1].has_close \/ ~candles[Len(candles)].has_close
    THEN BacktestRaised("KeyError")
    ELSE IF RMul(candles[1].close,
                 RAdd(One, RDiv(slippage_pct, Num(100)))) = Zero
    THEN BacktestRaised("ZeroDivisionError")
    ELSE IF \E i \in 1..Len(candles) : ~candles[i].has_close
    THEN BacktestRaised("KeyError")
    ELSE BacktestExit(initial_cash, candles,
                      RDiv(RMul(initial_cash, LessPct(transaction_cost_pct)),
                           RMul(candles[1].close,
                                RAdd(One, RDiv(slippage_pct, Num(100))))),
                      transaction_cost_pct,
                      RMul(candles[Len(candles)].close,
                           LessPct(slippage_pct)))

\* run with the default cost and slippage.
BacktesterRun(initial_cash, candles) ==
    BacktesterRunWith(initial_cash, candles, Zero, Zero)

\* The keyword parameters of run.
RunKeywords == {"mode", "transaction_cost_pct", "slippage_pct"}

\* bt.run(candles, **keywords): a keyword that run does not declare raises
\* TypeError before the body runs.
BacktesterCall(initial_cash, candles, keywords) ==
    IF ~(keywords \subseteq RunKeywords)
    THEN [bound |-> FALSE, raised |-> "TypeError"]
    ELSE BacktesterRun(initial_cash, candles)

----------------------------------------------------------------------------
(* research.walk_forward_engine, research.regime_splitter,                 *)
(* research.stability_engine: the sharpe ratios are square roots, so their *)
(* mean and variance are kept as the expressions the code evaluates.       *)

Min(a, b) == IF a <= b THEN a ELSE b

\* candles[from : to] of Python, from and to counted from 0.
Slice(candles, from, to) ==
    SubSeq(candles, Min(from, Len(candles)) + 1, Min(to, Len(candles)))

\* sum(xs) / len(xs)
SharpeMean(xs) == [stat |-> "mean", of |-> xs]

\* sum((x - mean) ** 2 for x in xs) / (len(xs) - 1)
SharpeVariance(xs) == [stat |-> "variance", of |-> xs]

\* The entry of windows_out for the two results of a fold.
WalkWindow(r_train, r_test) ==
    [train_sharpe |-> r_train.sharpe_ratio,
     test_sharpe |-> r_test.sharpe_ratio,
     train_drawdown |-> r_train.max_drawdown_pct,
     test_drawdown |-> r_test.max_drawdown_pct,
     train_return |-> r_train.return_pct,
     test_return |-> r_test.return_pct]

\* What the loop of walk_forward_analysis leaves: the exception that ended
\* it, the windows and the positions of the folds it ran the backtester on.
WalkLoop(raised, windows_out, positions) ==
    [raised |-> raised, windows_out |-> windows_out, positions |-> positions]

RECURSIVE WalkFrom(_, _, _, _, _, _, _, _)

\* The fold at pos, the results of its two backtests being given.
WalkFold(candles, T, U, step, cash, pos, out, pp, r_train, r_test) ==
    IF r_train.raised # "none"
    THEN WalkLoop(r_train.raised, out, Append(pp, pos))
    ELSE IF r_test.raised # "none"
    THEN WalkLoop(r_test.raised, out, Append(pp, pos))
    ELSE WalkFrom(candles, T, U, step, cash, pos + step,
                  Append(out, WalkWindow(r_train, r_test)), Append(pp, pos))

\* The while loop of walk_forward_analysis from position pos on.
WalkFrom(candles, T, U, step, cash, pos, out, pp) ==
    IF Len(Slice(candles, pos + T, pos + T + U)) < U
    THEN WalkLoop("none", out, pp)
    ELSE WalkFold(candles, T, U, step, cash, pos, out, pp,
                  BacktesterCall(cash, Slice(candles, pos, pos + T),
                                 {"strategy"}),
                  BacktesterCall(cash, Slice(candles, pos + T, pos + T + U),
                                 {"strategy"}))

ResearchRaised(exception, positions) ==
    [raised |-> exception, positions |-> positions]

\* The aggregate metrics of walk_forward_analysis.
WalkAggregate(loop) ==
    IF loop.raised # "none" THEN ResearchRaised(loop.raised, loop.positions)
    ELSE IF Len(loop.windows_out) = 0
    THEN ResearchRaised("ZeroDivisionError", loop.positions)
    ELSE [raised |-> "none", positions |-> loop.positions,
          windows |-> loop.windows_out,
          mean_train_sharpe |->
              SharpeMean([i \in 1..Len(loop.windows_out) |->
                             loop.windows_out[i].train_sharpe]),
          mean_test_sharpe |->
              SharpeMean([i \in 1..Len(loop.windows_out) |->
                             loop.windows_out[i].test_sharpe]),
          test_sharpe_variance |->
              IF Len(loop.windows_out) > 1
              THEN SharpeVariance([i \in 1..Len(loop.windows_out) |->
                                      loop.windows_out[i].test_sharpe])
              ELSE Zero,
          performance_decay |->
              [stat |-> "difference",
               of |-> <<SharpeMean([i \in 1..Len(loop.windows_out) |->
                                       loop.windows_out[i].test_sharpe]),
                        SharpeMean([i \in 1..Len(loop.windows_out) |->
                                       loop.windows_out[i].train_sharpe])>>]]

\* walk_forward_analysis(strategy_class, candles, train_size, test_size,
\* step_size, initial_cash)
WalkForwardAnalysis(candles, train_size, test_size, step_size, initial_cash) ==
    IF train_size < 2 \/ test_size < 2 \/ step_size < 1
    THEN ResearchRaised("ValueError", <<>>)
    ELSE IF Len(candles) < train_size + test_size
    THEN ResearchRaised("ValueError", <<>>)
    ELSE WalkAggregate(WalkFrom(candles, train_size, test_size, step_size,
                                initial_cash, 0, <<>>, <<>>))

RECURSIVE SplitFrom(_, _, _, _)

\* The while loop of split_into_time_windows from start on.
SplitFrom(candles, window_size, start, windows) ==
    IF start >= Len(candles) THEN windows
    ELSE SplitFrom(candles, window_size, start + window_size,
                   IF Len(Slice(candles, start, start + window_size)) >= 2
                   THEN Append(windows,
                               Slice(candles, start, start + window_size))
                   ELSE windows)

RECURSIVE RegimeFrom(_, _, _, _)

\* The loop of analyze_strategy over the windows, from window i on.
RegimeFrom(windows, cash, i, regime_metrics) ==
    IF i > Len(windows) THEN WalkLoop("none", regime_metrics, <<>>)
    ELSE IF BacktesterCall(cash, windows[i], {"strategy"}).raised # "none"
    THEN WalkLoop(BacktesterCall(cash, windows[i], {"strategy"}).raised,
                  regime_metrics, <<>>)
    ELSE RegimeFrom(windows, cash, i + 1,
                    Append(regime_metrics,
                           BacktesterCall(cash, windows[i], {"strategy"})))

\* The aggregate metrics of analyze_strategy: the variance divides by
\* n - 1 whatever n is.
StabilityAggregate(loop) ==
    IF loop.raised # "none" THEN ResearchRaised(loop.raised, <<>>)
    ELSE IF Len(loop.windows_out) = 0 \/ Len(loop.windows_out) - 1 = 0
    THEN ResearchRaised("ZeroDivisionError", <<>>)
    ELSE [raised |-> "none", positions |-> <<>>,
          regime_metrics |-> loop.windows_out,
          mean_sharpe |->
              SharpeMean([i \in 1..Len(loop.windows_out) |->
                             loop.windows_out[i].sharpe_ratio]),
          sharpe_variance |->
              SharpeVariance([i \in 1..Len(loop.windows_out) |->
                                 loop.windows_out[i].sharpe_ratio]),
          worst_drawdown |->
              CHOOSE d \in {loop.windows_out[i].max_drawdown_pct :
                               i \in 1..Len(loop.windows_out)} :
                  \A i \in 1..Len(loop.windows_out) :
                      RLe(d, loop.windows_out[i].max_drawdown_pct)]

\* analyze_strategy(strategy_class, candles, window_size, initial_cash)
AnalyzeStrategy(candles, window_size, initial_cash) ==
    IF window_size < 2 \/ Len(candles) < window_size
    THEN ResearchRaised("ValueError", <<>>)
    ELSE StabilityAggregate(
             RegimeFrom(SplitFrom(candles, window_size, 0, <<>>),
                        initial_cash, 1, <<>>))

----------------------------------------------------------------------------
(* research.monte_carlo_engine *)

\* The floats random() returns here: 0.0, 0.5 and 0.75.
Uniforms == {Zero, Rat(1, 2), Rat(3, 4)}

\* random.Random(seed): the generator is the cycle of floats that its seed
\* fixes for random(), the position in it, the value gauss keeps for its
\* next call, and the number of normal draws made so far.
RandomOf(cycle) ==
    [cycle |-> cycle, pos |-> 0, gauss_next |-> <<>>, normals |-> 0]

\* The float the next call of random() returns.
RandomDraw(rng) == rng.cycle[(rng.pos % Len(rng.cycle)) + 1]

Advance(rng) == [rng EXCEPT !.pos = @ + 1]

\* floor(random() * n)
RandBelow(rng, n) == (RandomDraw(rng).n * n) \div RandomDraw(rng).d

RECURSIVE ChoicesFrom(_, _, _, _)
\* rng.choices(population, k = k): one call of random() for each element.
ChoicesFrom(rng, population, k, sample) ==
    IF k = 0 THEN [sample |-> sample, rng |-> rng]
    ELSE ChoicesFrom(Advance(rng), population, k - 1,
                     Append(sample,
                            population[RandBelow(rng, Len(population)) + 1]))

RECURSIVE ShuffleFrom(_, _, _)
\* rng.shuffle(x): for i = len(x) - 1 down to 1, swap x[i] and x[j] for a
\* drawn j <= i (positions counted from 0).
ShuffleFrom(rng, x, i) ==
    IF i < 1 THEN [sample |-> x, rng |-> rng]
    ELSE LET j == RandBelow(rng, i + 1)
         IN  ShuffleFrom(Advance(rng),
                         [x EXCEPT ![i + 1] = x[j + 1], ![j + 1] = x[i + 1]],
                         i - 1)

\* rng.gauss(mu, sigma): a kept value is used up; otherwise two calls of
\* random() give an angle and a radius, cos(angle) * radius is returned and
\* sin(angle) * radius is kept.  For the floats of Uniforms the angle is 0,
\* pi or 3 pi / 2, and the radius is 0, sqrt(2 log 2) or sqrt(2 log 4), the
\* last two rounded to 1 and 2 here.
GaussCos(x) == IF x = Zero THEN One ELSE IF x = Rat(1, 2) THEN Num(-1) ELSE Zero

GaussSin(x) == IF x = Rat(3, 4) THEN Num(-1) ELSE Zero

GaussRadius(x) == IF x = Zero THEN Zero ELSE IF x = Rat(1, 2) THEN One ELSE Num(2)

Gauss(rng, mu, sigma) ==
    IF rng.gauss_next # <<>>
    THEN [value |-> RAdd(mu, RMul(rng.gauss_next[1], sigma)),
          rng |-> [rng EXCEPT !.gauss_next = <<>>, !.normals = @ + 1]]
    ELSE [value |->
              RAdd(mu,
                   RMul(RMul(GaussCos(RandomDraw(rng)),
                             GaussRadius(RandomDraw(Advance(rng)))),
                        sigma)),
          rng |-> [Advance(Advance(rng)) EXCEPT
                       !.gauss_next =
                           <<RMul(GaussSin(RandomDraw(rng)),
                                  GaussRadius(RandomDraw(Advance(rng))))>>,
                       !.normals = @ + 1]]

RECURSIVE Compound(_, _, _)
\* The compounding loop of _metrics_from_sample from entry i of the sample.
Compound(sample, i, curve) ==
    IF i > Len(sample) THEN curve
    ELSE Compound(sample, i + 1,
                  Append(curve, RMul(curve[Len(curve)],
                                     RAdd(One, sample[i]))))

\* The metrics of one simulation, its curve and its returns being given.
SampleMetrics(initial_cash, curve, ret_series, mean_r) ==
    [final_equity |-> curve[Len(curve)],
     return_pct |-> RMul(RDiv(RSub(curve[Len(curve)], initial_cash),
                              initial_cash), Num(100)),
     sharpe_ratio |->
         LET var_r ==
                 RDiv(SumSeq([i \in 1..Len(ret_series) |->
                                 RMul(RSub(ret_series[i], mean_r),
                                      RSub(ret_series[i], mean_r))]),
                      Num(Len(ret_series) - 1))
         IN  IF var_r = Zero THEN NoSurd
             ELSE Surd(Sign(mean_r.n), RDiv(RMul(mean_r, mean_r), var_r)),
     max_drawdown_pct |-> MaxDrawdownFrom(curve, 1, curve[1], Zero)]

\* _metrics_from_sample(sample, initial_cash)
MetricsFromSample(sample, initial_cash) ==
    SampleMetrics(initial_cash, Compound(sample, 1, <<initial_cash>>),
                  <<Zero>> \o sample,
                  RDiv(SumSeq(<<Zero>> \o sample), Num(Len(sample) + 1)))

\* _aggregate(sim_results), where the loop left the generator at rng.
Aggregate(sim_results, rng) ==
    [raised |-> "none",
     simulations_results |-> sim_results,
     mean_sharpe |->
         SharpeMean([i \in 1..Len(sim_results) |->
                        sim_results[i].sharpe_ratio]),
     sharpe_variance |->
         IF Len(sim_results) > 1
         THEN SharpeVariance([i \in 1..Len(sim_results) |->
                                 sim_results[i].sharpe_ratio])
         ELSE Zero,
     mean_return_pct |->
         RDiv(SumSeq([i \in 1..Len(sim_results) |->
                         sim_results[i].return_pct]),
              Num(Len(sim_results))),
     probability_of_loss |->
         RDiv(Num(Cardinality({i \in 1..Len(sim_results) :
                                  RLt(sim_results[i].return_pct, Zero)})),
              Num(Len(sim_results))),
     worst_drawdown |->
         CHOOSE d \in {sim_results[i].max_drawdown_pct :
                          i \in 1..Len(sim_results)} :
             \A i \in 1..Len(sim_results) :
                 RLe(d, sim_results[i].max_drawdown_pct),
     rng |-> rng]

\* A noise step that draws its normals whatever the deviations are.
NoiseAlways(r, rng, shock_std, slippage_std) ==
    LET shock == Gauss(rng, One, shock_std)
        slip == Gauss(shock.rng, Zero, slippage_std)
    IN  [value |-> RSub(RMul(r, shock.value), slip.value), rng |-> slip.rng]

\* The noise of execution mode on one return r of the sample.
Noise(r, rng, shock_std, slippage_std) ==
    LET shock == IF shock_std # Zero THEN Gauss(rng, One, shock_std)
                 ELSE [value |-> One, rng |-> rng]
        shocked == IF shock_std # Zero THEN RMul(r, shock.value) ELSE r
        slip == IF slippage_std # Zero
                THEN Gauss(shock.rng, Zero, slippage_std)
                ELSE [value |-> Zero, rng |-> shock.rng]
    IN  [value |-> IF slippage_std # Zero THEN RSub(shocked, slip.value)
                   ELSE shocked,
         rng |-> slip.rng]

RECURSIVE ModifiedFrom(_, _, _, _, _, _)
\* The inner loop of execution mode from entry i of the sample on.
ModifiedFrom(sample, i, rng, shock_std, slippage_std, modified) ==
    IF i > Len(sample) THEN [sample |-> modified, rng |-> rng]
    ELSE LET noisy == Noise(sample[i], rng, shock_std, slippage_std)
         IN  ModifiedFrom(sample, i + 1, noisy.rng, shock_std, slippage_std,
                          Append(modified, noisy.value))

\* The sample of one simulation and the generator after it.
Simulation(args, rng) ==
    IF args.mode = "returns"
    THEN ChoicesFrom(rng, args.returns_series, Len(args.returns_series), <<>>)
    ELSE IF args.mode = "trades"
    THEN ShuffleFrom(rng, args.trades, Len(args.trades) - 1)
    ELSE ModifiedFrom(ChoicesFrom(rng, args.returns_series,
                                  Len(args.returns_series), <<>>).sample,
                      1,
                      ChoicesFrom(rng, args.returns_series,
                                  Len(args.returns_series), <<>>).rng,
                      args.shock_std, args.slippage_std, <<>>)

RECURSIVE SimulateFrom(_, _, _, _, _)
\* The simulation loop of analyze with k simulations left.
SimulateFrom(initial_cash, args, k, rng, sim_results) ==
    IF k = 0 THEN Aggregate(sim_results, rng)
    ELSE LET sim == Simulation(args, rng)
         IN  SimulateFrom(initial_cash, args, k - 1, sim.rng,
                          Append(sim_results,
                                 MetricsFromSample(sim.sample, initial_cash)))

\* MonteCarloEngine(initial_cash, seed).analyze(returns_series, trades, mode,
\* simulations, slippage_std, shock_std), where the seed fixes cycle.
MonteCarloAnalyze(initial_cash, cycle, args) ==
    IF \/ args.simulations < 1
       \/ args.mode \notin {"returns", "trades", "execution"}
       \/ RLt(args.slippage_std, Zero)
       \/ RLt(args.shock_std, Zero)
       \/ (args.mode \in {"returns", "execution"}
           /\ Len(args.returns_series) < 2)
       \/ (args.mode = "trades" /\ Len(args.trades) < 2)
    THEN [raised |-> "ValueError"]
    ELSE SimulateFrom(initial_cash, args, args.simulations, RandomOf(cycle),
                      <<>>)

----------------------------------------------------------------------------
(* ai.fitness_evaluator *)

\* A fitness: the float sharpe + offset, or a float that is not finite.
Finite(sharpe, offset) ==
    [kind |-> "finite", sharpe |-> sharpe, offset |-> offset]

NaN == [kind |-> "nan"]

ZERO_TRADE_PENALTY == Finite(NoSurd, Num(-100))

FitnessEvaluator(candles, initial_cash, mode) ==
    [candles |-> candles, initial_cash |-> initial_cash, mode |-> mode]

Evaluated(raised, fitness, call) ==
    [raised |-> raised, fitness |-> fitness,
     call |-> [bound |-> call.bound, raised |-> call.raised]]

\* A fast fitness that lets the exception of the backtester through.
FastFitnessRaising(result) ==
    IF result.raised # "none" THEN Evaluated(result.raised, NaN, result)
    ELSE IF RLt(RAbs(result.return_pct), Rat(1, 100))
    THEN Evaluated("none", ZERO_TRADE_PENALTY, result)
    ELSE Evaluated("none",
                   Finite(result.sharpe_ratio,
                          RSub(Zero, RMul(RAbs(result.max_drawdown_pct),
                                          Rat(1, 2)))),
                   result)

\* _fast_fitness after bt.run(candles, strategy=strategy_class()), result
\* being what the call returned or raised.
FastFitness(result) ==
    IF result.raised # "none"
    THEN Evaluated("none", ZERO_TRADE_PENALTY, result)
    ELSE IF RLt(RAbs(result.return_pct), Rat(1, 100))
    THEN Evaluated("none", ZERO_TRADE_PENALTY, result)
    ELSE Evaluated("none",
                   Finite(result.sharpe_ratio,
                          RSub(Zero, RMul(RAbs(result.max_drawdown_pct),
                                          Rat(1, 2)))),
                   result)

\* _full_fitness: StrategyRankingEngine.run starts with the same call of
\* the backtester; pipeline is what the rest of the ranking pipeline
\* raises, or the composite score it gives, when that call returns.
FullFitness(result, pipeline) ==
    IF result.raised # "none"
    THEN Evaluated("none", ZERO_TRADE_PENALTY, result)
    ELSE IF pipeline.raised # "none" \/ pipeline.score = NaN
    THEN Evaluated("none", ZERO_TRADE_PENALTY, result)
    ELSE Evaluated("none", pipeline.score, result)

NotBacktested == [bound |-> FALSE, raised |-> "none"]

\* evaluate: genome_to_strategy_class validates the genome, outside any
\* try block.
Evaluate(evaluator, genome, pipeline) ==
    IF ~ValidateGenome(genome)
    THEN Evaluated("ValueError", NaN, NotBacktested)
    ELSE IF evaluator.mode = "fast"
    THEN FastFitness(BacktesterCall(evaluator.initial_cash,
                                    evaluator.candles, {"strategy"}))
    ELSE FullFitness(BacktesterCall(evaluator.initial_cash,
                                    evaluator.candles, {"strategy"}),
                     pipeline)

----------------------------------------------------------------------------
(* ai.crossover_engine, ai.evolution_engine: the draws of the random       *)
(* generators are free choices                                             *)

\* a < b for two fitness floats; a comparison with a NaN is false.
FitnessLt(a, b) ==
    /\ a.kind = "finite"
    /\ b.kind = "finite"
    /\ LET d == RSub(b.offset, a.offset)
           right == SurdSign(d, b.sharpe.sign, b.sharpe.sq)
           cross == SurdSign(RSub(RAdd(RMul(d, d), b.sharpe.sq),
                                  a.sharpe.sq),
                             Sign(d.n) * b.sharpe.sign,
                             RMul(Num(4), RMul(RMul(d, d), b.sharpe.sq)))
       IN  IF a.sharpe.sign # right THEN a.sharpe.sign < right
           ELSE IF right = 1 THEN cross = 1
           ELSE IF right = -1 THEN cross = -1
           ELSE FALSE

\* scored.sort(key=score, reverse=True): descending, entries of equal
\* score keep their order.
Before(scored, j, i) ==
    \/ FitnessLt(scored[i].score, scored[j].score)
    \/ (~FitnessLt(scored[j].score, scored[i].score) /\ j < i)

SortScored(scored) ==
    [r \in 1..Len(scored) |->
        scored[CHOOSE i \in 1..Len(scored) :
                  Cardinality({j \in 1..Len(scored) :
                                  Before(scored, j, i)}) = r - 1]]

\* EvolutionEngine.__init__ (population_size >= 2 and generations >= 1 are
\* enforced by the constructor; the model only builds engines that pass).
EvolutionEngine(candles, ps, gens, mr, cr, elitism, ts, mode) ==
    [population_size |-> ps, generations |-> gens,
     mutation_rate |-> mr, crossover_rate |-> cr,
     elitism |-> IF elitism <= ps THEN elitism ELSE ps,
     tournament_size |-> IF ts <= ps THEN ts ELSE ps,
     evaluator |-> FitnessEvaluator(candles, Num(1000), mode)]

\* _tournament_select: the best of a random sample of tournament_size
\* entries, the first of the sample among equals.
TournamentSelect(scored, size) ==
    {scored[i].genome : i \in
        {i \in 1..Len(scored) :
            \E C \in SUBSET (1..Len(scored)) :
                /\ Cardinality(C) = size
                /\ i \in C
                /\ \A j \in C :
                       ~FitnessLt(scored[i].score, scored[j].score)}}

\* The moving_average fallback of crossover: the values of parent_a.
CrossoverFix(child, parent_a) ==
    IF child.type = "moving_average"
       /\ child.params["short"] >= child.params["long"]
    THEN parent_a
    ELSE child

\* CrossoverEngine.crossover for two parents of one type: every parameter
\* comes from one parent or the other.
Crossover(parent_a, parent_b) ==
    {CrossoverFix(Genome(parent_a.type, ps), parent_a) :
        ps \in {f \in [ParamSet(parent_a.type) ->
                          UNION {{parent_a.params[p], parent_b.params[p]} :
                                    p \in ParamSet(parent_a.type)}] :
                   \A p \in ParamSet(parent_a.type) :
                       f[p] \in {parent_a.params[p], parent_b.params[p]}}}

\* The child of parent_a before mutation.
Offspring(e, scored, parent_a) ==
    (IF MayFail(e.crossover_rate) THEN {parent_a} ELSE {})
        \cup (IF MayHold(e.crossover_rate)
              THEN UNION {IF parent_a.type = parent_b.type
                          THEN Crossover(parent_a, parent_b)
                          ELSE {parent_a} :
                            parent_b \in
                                TournamentSelect(scored, e.tournament_size)}
              ELSE {})

\* The children one pass of the while loop can append.
Children(e, scored) ==
    UNION {UNION {MutateOutcomes(child, e.mutation_rate) :
                     child \in Offspring(e, scored, parent_a)} :
             parent_a \in TournamentSelect(scored, e.tournament_size)}

\* The genomes carried over: the first elitism entries of the sorted list.
Elites(e, scored) == [i \in 1..Max(e.elitism, 0) |-> scored[i].genome]

\* A next population made of children only.
NextPopulationsNoElites(e, scored) ==
    [1..e.population_size -> Children(e, scored)]

\* The populations the generation can build from the sorted scores.
NextPopulations(e, scored) ==
    {Elites(e, scored) \o children :
        children \in [1..(e.population_size - Max(e.elitism, 0)) ->
                         Children(e, scored)]}

\* Scores that differ from genome to genome: the smaller the first
\* parameter, the better.
ScoredByGenome(e, population, pipeline) ==
    [i \in 1..Len(population) |->
        [score |-> Finite(NoSurd,
                          Num(0 - population[i].params[
                                      ParamNames(population[i].type)[1]])),
         genome |-> population[i]]]

\* The scores of a population, in its order.
Scored(e, population, pipeline) ==
    [i \in 1..Len(population) |->
        [score |-> Evaluate(e.evaluator, population[i], pipeline).fitness,
         genome |-> population[i]]]

\* The state of a run that has not started: run() of a new engine.
NoRun ==
    [pc |-> "constructed", population |-> <<>>, gen |-> 0,
     generation_bests |-> <<>>, history |-> <<>>]

RECURSIVE Nth(_, _)
\* The entry of a set at position k of a fixed enumeration of it.
Nth(S, k) ==
    IF k = 0 THEN CHOOSE x \in S : TRUE
    ELSE Nth(S \ {CHOOSE x \in S : TRUE}, k - 1)

\* Draws that do not come from the seeded generators.
DrawsUnseeded(seed, k, outcomes) == outcomes

\* What the draws of one step of run can give, out of the outcomes the step
\* has: self._rng, the mutator and the crossover engine are
\* random.Random(seed), so a seed fixes the outcome of step k; without a
\* seed (None, written <<>>) the generators seed themselves from the system.
Draws(seed, k, outcomes) ==
    IF seed = <<>> THEN outcomes
    ELSE {Nth(outcomes, seed[(k % Len(seed)) + 1] % Cardinality(outcomes))}

\* run() up to the loop, for a drawn initial population.
RunStarted(run, population) ==
    [run EXCEPT !.pc = "running", !.population = population]

\* The body of the generation loop, the scores of the population and the
\* next population being given.
RunEvolved(run, scored, next_pop) ==
    [run EXCEPT !.population = next_pop,
                !.gen = @ + 1,
                !.generation_bests = Append(@, SortScored(scored)[1].score),
                !.history = @ \o [i \in 1..Len(scored) |->
                                     [generation |-> run.gen,
                                      genome |-> scored[i].genome,
                                      fitness |-> scored[i].score]]]

\* What run returns, the sorted final scores being given.
RunReturned(run, final_scored) ==
    [best_genome |-> final_scored[1].genome,
     best_fitness |-> final_scored[1].score,
     generation_bests |-> run.generation_bests,
     history |-> run.history]

----------------------------------------------------------------------------
(* State *)

VARIABLES
    broker,      \* a PaperBroker driven directly through execute_order
    calls,       \* number of execute_order calls made on it
    lastCall,    \* the last call: its order and whether it returned
    gateway,     \* an ExecutionGateway that owns its broker
    gwCalls,     \* number of on_candle calls made on it
    fills,       \* the fills its broker returned, in execution order
    lastOn,      \* the last on_candle call: candle, signal and outcome
    cfg,         \* a PortfolioLifecycleManager and the candles it runs on
    pc,          \* position of run: "constructed", "loop", "done", "raised"
    step,        \* index of the next candle of the loop (0-based)
    active_strategies,
    disabled_names,
    rebalance_steps,
    current_engine,
    equity_curve,
    final_portfolio_equity,
    segments,    \* the engines built by the rebalances: where and with what
    rankingRaisedAt, \* the steps at which ranking_engine.run raised
    mlCfg,       \* how the two gateways below are built, and the candles
    manual,      \* a gateway driven by hand, one on_candle call at a time
    manualCalls, \* number of on_candle calls made on it
    manualRaised,    \* what its last on_candle call raised ("none" if nothing)
    looped,      \* what MarketLoop.run left and returned on the other one
    peCfg,       \* how the portfolio engine is built, and the candles
    portfolio,   \* a PortfolioEngine
    peRuns,      \* number of run calls made on it
    peReport,    \* the last run: its report and the gateways it started from
    allocIn,     \* a CapitalAllocator mode and a list of ranking results
    allocOut,    \* what compute_weights returned or raised for them
    mutIn,       \* a genome and the mutation_rate of a MutationEngine
    mutOut,      \* what mutate returned or raised for them
    fitIn,       \* a FitnessEvaluator and a genome
    fitOut,      \* what evaluate returned or raised for them
    evo,         \* an EvolutionEngine
    evoPc,       \* position of its run: "constructed", "running", "done"
    population,
    gen,         \* the generations done
    generation_bests,
    history,
    evoResult,   \* best_genome and best_fitness, once run has returned
    riskIn,      \* a RiskManager, an Order object and an equity
    riskOut,     \* what adjust_order returned or raised for them
    btIn,        \* a Backtester, candles, a cost and a slippage
    btOut,       \* what run returned or raised for them
    resIn,       \* a research function and its arguments
    resOut,      \* what the function returned or raised for them
    twin,        \* the arguments two EvolutionEngines are constructed with
    twinRun,     \* the run of the engine that is running, or is to run next
    twinResults  \* what the runs made so far returned

brokerVars == <<broker, calls, lastCall>>

gatewayVars == <<gateway, gwCalls, fills, lastOn>>

lifecycleVars == <<cfg, pc, step, active_strategies, disabled_names,
                   rebalance_steps, current_engine, equity_curve,
                   final_portfolio_equity, segments, rankingRaisedAt>>

marketLoopVars == <<mlCfg, manual, manualCalls, manualRaised, looped>>

portfolioVars == <<peCfg, portfolio, peRuns, peReport>>

allocatorVars == <<allocIn, allocOut>>

mutationVars == <<mutIn, mutOut>>

fitnessVars == <<fitIn, fitOut>>

evolutionVars == <<evo, evoPc, population, gen, generation_bests, history,
                   evoResult>>

riskVars == <<riskIn, riskOut>>

backtestVars == <<btIn, btOut>>

researchVars == <<resIn, resOut>>

twinVars == <<twin, twinRun, twinResults>>

vars == <<broker, calls, lastCall, gateway, gwCalls, fills, lastOn,
          cfg, pc, step, active_strategies, disabled_names,
          rebalance_steps, current_engine, equity_curve,
          final_portfolio_equity, segments, rankingRaisedAt,
          mlCfg, manual, manualCalls, manualRaised, looped,
          peCfg, portfolio, peRuns, peReport, allocIn, allocOut,
          mutIn, mutOut, fitIn, fitOut,
          evo, evoPc, population, gen, generation_bests, history,
          evoResult,
          riskIn, riskOut,
          btIn, btOut,
          resIn, resOut,
          twin, twinRun, twinResults>>

\* What the actions of each specification leave alone.
FrameBroker == <<gatewayVars, lifecycleVars, marketLoopVars, portfolioVars,
                 allocatorVars, mutationVars, fitnessVars, evolutionVars,
                 riskVars, backtestVars, researchVars, twinVars>>

FrameGateway == <<brokerVars, lifecycleVars, marketLoopVars, portfolioVars,
                  allocatorVars, mutationVars, fitnessVars, evolutionVars,
                  riskVars, backtestVars, researchVars, twinVars>>

FrameLifecycle == <<brokerVars, gatewayVars, marketLoopVars, portfolioVars,
                    allocatorVars, mutationVars, fitnessVars, evolutionVars,
                    riskVars, backtestVars, researchVars, twinVars>>

FrameMarketLoop == <<brokerVars, gatewayVars, lifecycleVars, portfolioVars,
                     allocatorVars, mutationVars, fitnessVars, evolutionVars,
                     riskVars, backtestVars, researchVars, twinVars>>

FramePortfolio == <<brokerVars, gatewayVars, lifecycleVars, marketLoopVars,
                    allocatorVars, mutationVars, fitnessVars, evolutionVars,
                    riskVars, backtestVars, researchVars, twinVars>>

FrameAllocator == <<brokerVars, gatewayVars, lifecycleVars, marketLoopVars,
                    portfolioVars, mutationVars, fitnessVars, evolutionVars,
                    riskVars, backtestVars, researchVars, twinVars>>

FrameMutation == <<brokerVars, gatewayVars, lifecycleVars, marketLoopVars,
                   portfolioVars, allocatorVars, fitnessVars, evolutionVars,
                   riskVars, backtestVars, researchVars, twinVars>>

FrameFitness == <<brokerVars, gatewayVars, lifecycleVars, marketLoopVars,
                  portfolioVars, allocatorVars, mutationVars, evolutionVars,
                  riskVars, backtestVars, researchVars, twinVars>>

FrameEvolution == <<brokerVars, gatewayVars, lifecycleVars, marketLoopVars,
                    portfolioVars, allocatorVars, mutationVars, fitnessVars,
                    riskVars, backtestVars, researchVars, twinVars>>

FrameRisk == <<brokerVars, gatewayVars, lifecycleVars, marketLoopVars,
               portfolioVars, allocatorVars, mutationVars, fitnessVars,
               evolutionVars, backtestVars, researchVars, twinVars>>

FrameBacktest == <<brokerVars, gatewayVars, lifecycleVars, marketLoopVars,
                   portfolioVars, allocatorVars, mutationVars, fitnessVars,
                   evolutionVars, riskVars, researchVars, twinVars>>

FrameResearch == <<brokerVars, gatewayVars, lifecycleVars, marketLoopVars,
                   portfolioVars, allocatorVars, mutationVars, fitnessVars,
                   evolutionVars, riskVars, backtestVars, twinVars>>

FrameTwin == <<brokerVars, gatewayVars, lifecycleVars, marketLoopVars,
               portfolioVars, allocatorVars, mutationVars, fitnessVars,
               evolutionVars, riskVars, backtestVars, researchVars>>

----------------------------------------------------------------------------
(* Specification SpecBroker: any sequence of execute_order calls *)

InitialCashes == {Num(2), Num(3)}

Slippages == {Zero, Rat(1, 2)}

OrderSides == {BUY, SELL, "SHORT"}

OrderQuantities == {Num(-1), Zero, Num(1), Num(2)}

OrderPrices == {Num(1), Num(2)}

NoCall == [order |-> Order("NONE", Zero, Zero), ok |-> TRUE]

NoOn == [candle |-> NoCloseCandle, signal |-> "NONE", raised |-> "none",
         brokerFailed |-> FALSE, stateBefore |-> "FLAT"]

NoEngine == [kind |-> "none"]

\* A manager as built by __init__, together with the candles given to run.
Manager(candles, strategies, capital, interval, allocator, detector) ==
    [candles |-> candles, strategies |-> strategies,
     initial_capital |-> capital, interval |-> interval,
     allocator |-> allocator, decay_detector |-> detector]

Constructed ==
    /\ pc = "constructed"
    /\ step = 0
    /\ active_strategies = <<>>
    /\ disabled_names = <<>>
    /\ rebalance_steps = <<>>
    /\ current_engine = NoEngine
    /\ equity_curve = <<>>
    /\ final_portfolio_equity = Zero
    /\ segments = <<>>
    /\ rankingRaisedAt = {}

IdleLifecycle ==
    /\ cfg = Manager(<<>>, <<"AlwaysFlat">>, One, 1, "equal",
                     NoDecayDetector)
    /\ Constructed

IdleBroker ==
    /\ broker = PaperBroker(Num(2), Zero)
    /\ calls = 0
    /\ lastCall = NoCall

IdleGateway ==
    /\ gateway = ExecutionGateway("AlwaysFlat", PaperBroker(Num(2), Zero),
                                  NoRiskManager)
    /\ gwCalls = 0
    /\ fills = <<>>
    /\ lastOn = NoOn

\* A market loop set-up: the gateway's strategy class, broker and risk
\* manager, and the candles given to run.
LoopSetup(strategy_class, cash, slippage, risk_manager, candles) ==
    [strategy_class |-> strategy_class, cash |-> cash,
     slippage |-> slippage, risk_manager |-> risk_manager,
     candles |-> candles]

\* The gateway of a set-up, as constructed.
SetupGateway(c) ==
    ExecutionGateway(c.strategy_class, PaperBroker(c.cash, c.slippage),
                     c.risk_manager)

NotLooped == [ran |-> FALSE]

IdleMarketLoop ==
    /\ mlCfg = LoopSetup("AlwaysFlat", Num(2), Zero, NoRiskManager, <<>>)
    /\ manual = SetupGateway(mlCfg)
    /\ manualCalls = 0
    /\ manualRaised = "none"
    /\ looped = NotLooped

\* A portfolio set-up: the arguments of PortfolioEngine and the candles
\* given to run.
PortfolioSetup(strategies, initial_capital, risk_manager, candles) ==
    [strategies |-> strategies, initial_capital |-> initial_capital,
     risk_manager |-> risk_manager, candles |-> candles]

SetupEngine(c) ==
    PortfolioEngine(c.strategies, c.initial_capital, c.risk_manager)

NoReport == [ok |-> TRUE, portfolio_equity |-> Zero,
             portfolio_equity_curve |-> <<>>, before |-> <<>>]

IdlePortfolio ==
    /\ peCfg = PortfolioSetup(<<"AlwaysFlat">>, One, NoRiskManager, <<>>)
    /\ portfolio = SetupEngine(peCfg)
    /\ peRuns = 0
    /\ peReport = NoReport

NotCalled == [called |-> FALSE]

IdleAllocator ==
    /\ allocIn = [mode |-> "equal", results |-> <<>>]
    /\ allocOut = NotCalled

IdleMutation ==
    /\ mutIn = [genome |-> Genome("breakout", [p \in {"window"} |-> 5]),
                mutation_rate |-> Zero]
    /\ mutOut = NotCalled

IdleFitness ==
    /\ fitIn = [evaluator |-> FitnessEvaluator(<<>>, Num(1000), "fast"),
                genome |-> Genome("breakout", [p \in {"window"} |-> 5])]
    /\ fitOut = NotCalled

NoResult == [returned |-> FALSE]

EvolutionConstructed ==
    /\ evoPc = "constructed"
    /\ population = <<>>
    /\ gen = 0
    /\ generation_bests = <<>>
    /\ history = <<>>
    /\ evoResult = NoResult

IdleEvolution ==
    /\ evo = EvolutionEngine(<<>>, 2, 1, Zero, Zero, 0, 1, "fast")
    /\ EvolutionConstructed

IdleRisk ==
    /\ riskIn = [rm |-> RiskManager(One),
                 order |-> OrderObject("o1", "None", Order(SELL, Zero, Zero)),
                 equity |-> Zero]
    /\ riskOut = NotCalled

IdleBacktest ==
    /\ btIn = [initial_cash |-> Num(1000), candles |-> <<>>,
               transaction_cost_pct |-> Zero, slippage_pct |-> Zero]
    /\ btOut = NotCalled

IdleResearch ==
    /\ resIn = [fn |-> "none"]
    /\ resOut = NotCalled

IdleTwin ==
    /\ twin = [evo |-> EvolutionEngine(<<>>, 2, 1, Zero, Zero, 0, 1, "fast"),
               seed |-> <<>>]
    /\ twinRun = NoRun
    /\ twinResults = <<>>

\* Every component but the one named is as constructed and stays so.
Idle(s) ==
    /\ IF s = "broker" THEN TRUE ELSE IdleBroker
    /\ IF s = "gateway" THEN TRUE ELSE IdleGateway
    /\ IF s = "lifecycle" THEN TRUE ELSE IdleLifecycle
    /\ IF s = "marketloop" THEN TRUE ELSE IdleMarketLoop
    /\ IF s = "portfolio" THEN TRUE ELSE IdlePortfolio
    /\ IF s = "allocator" THEN TRUE ELSE IdleAllocator
    /\ IF s = "mutation" THEN TRUE ELSE IdleMutation
    /\ IF s = "fitness" THEN TRUE ELSE IdleFitness
    /\ IF s = "evolution" THEN TRUE ELSE IdleEvolution
    /\ IF s = "risk" THEN TRUE ELSE IdleRisk
    /\ IF s = "backtest" THEN TRUE ELSE IdleBacktest
    /\ IF s = "research" THEN TRUE ELSE IdleResearch
    /\ IF s = "twin" THEN TRUE ELSE IdleTwin

InitBroker ==
    /\ broker \in {PaperBroker(c, s) : c \in InitialCashes, s \in Slippages}
    /\ calls = 0
    /\ lastCall = NoCall
    /\ Idle("broker")

ExecuteOrderCall ==
    /\ calls < MaxCalls
    /\ \E side \in OrderSides, q \in OrderQuantities, p \in OrderPrices :
          LET order == Order(side, q, p)
              r == ExecuteOrder(broker, order)
          IN  /\ broker' = r.broker
              /\ lastCall' = [order |-> order, ok |-> r.ok]
    /\ calls' = calls + 1
    /\ UNCHANGED FrameBroker

NextBroker == ExecuteOrderCall

SpecBroker == InitBroker /\ [][NextBroker]_vars

----------------------------------------------------------------------------
(* Specification SpecGateway: any sequence of on_candle calls on a gateway *)
(* that is the only user of its broker; the strategy is arbitrary, so its  *)
(* signal is any of the three signals.                                     *)

Signals == {BUY, SELL, HOLD}

Closes == {Num(1), Num(2)}

GatewayCandles == {Candle(c) : c \in Closes} \cup {NoCloseCandle}

RiskManagers == {NoRiskManager, RiskManager(Rat(1, 2)), RiskManager(One)}

\* Slippage up to 100 %: the constructor accepts any slippage_pct >= 0.
GatewaySlippages == Slippages \cup {One}

InitGateway ==
    /\ \E s \in GatewaySlippages, rm \in RiskManagers :
          gateway = ExecutionGateway("AlwaysFlat", PaperBroker(Num(2), s), rm)
    /\ gwCalls = 0
    /\ fills = <<>>
    /\ lastOn = NoOn
    /\ Idle("gateway")

OnCandleCall ==
    /\ gwCalls < MaxSteps
    /\ \E candle \in GatewayCandles, signal \in Signals :
          LET o == OnCandleWith(gateway, candle,
                                [signal |-> signal, inst |-> gateway.strategy])
          IN  /\ gateway' = o.gw
              /\ fills' = IF o.fill = NoFill THEN fills
                          ELSE Append(fills, o.fill)
              /\ lastOn' = [candle |-> candle, signal |-> signal,
                            raised |-> o.raised,
                            brokerFailed |-> o.brokerFailed,
                            stateBefore |-> gateway.state]
    /\ gwCalls' = gwCalls + 1
    /\ UNCHANGED FrameGateway

NextGateway == OnCandleCall

SpecGateway == InitGateway /\ [][NextGateway]_vars

----------------------------------------------------------------------------
(* Specification SpecLifecycle: PortfolioLifecycleManager.run, one loop    *)
(* iteration per step; the ranking engine is an arbitrary collaborator     *)
(* that either raises or returns results for some of the strategies.       *)

SeqsUpTo(S, n) == UNION {[1..k -> S] : k \in 0..n}

LifecycleCloses == {Num(1), Num(2)}

StrategyLists == {<<"AlwaysBuyHold">>, <<"BuySellAlternate">>,
                  <<"AlwaysBuyHold", "BuySellAlternate">>}

Intervals == {1, 2}

\* The allocator mode and the decay detector a manager is built with.
Policies == {<<"equal", NoDecayDetector>>,
             <<"sharpe", NoDecayDetector>>,
             <<"sharpe", PerformanceDecayDetector(0, "sharpe")>>,
             <<"robustness", PerformanceDecayDetector(0, "robustness")>>}

SharpeValues == {-1, 2}

RobustnessValues == {-1, 2}

\* Ten candles with closes 100, 110, ..., 190.
RisingCandles == [i \in 1..10 |-> Candle(Num(100 + 10 * (i - 1)))]

RisingManagers ==
    {Manager(RisingCandles, <<"AlwaysBuyHold">>, Num(1000), 3, p[1], p[2]) :
        p \in Policies}

SmallManagers ==
    {Manager(cs, ss, Num(4), k, p[1], p[2]) :
        cs \in SeqsUpTo({Candle(c) : c \in LifecycleCloses}, MaxCandles),
        ss \in StrategyLists, k \in Intervals, p \in Policies}

\* The index lists of the sub-lists of a list of n elements.
SubLists(n) ==
    {s \in SeqsUpTo(1..n, n) : \A i, j \in 1..Len(s) : i < j => s[i] < s[j]}

\* What ranking_engine.run may return for the strategies of the manager.
RankingOutputs(strategies) ==
    UNION {
      {[i \in 1..Len(s) |->
           RankingResult(strategies[s[i]], m[i][1], m[i][2])] :
         m \in [1..Len(s) -> SharpeValues \X RobustnessValues]} :
      s \in SubLists(Len(strategies))}

InitLifecycle ==
    /\ cfg \in SmallManagers \cup RisingManagers
    /\ Constructed
    /\ Idle("lifecycle")

\* run() up to the loop: the empty candle list returns at once.
RunEnter ==
    /\ pc = "constructed"
    /\ IF cfg.candles = <<>>
       THEN /\ pc' = "done"
            /\ final_portfolio_equity' = cfg.initial_capital
            /\ UNCHANGED <<active_strategies, current_engine>>
       ELSE /\ pc' = "loop"
            /\ active_strategies' = cfg.strategies
            /\ current_engine' = PortfolioEngine(cfg.strategies,
                                                 cfg.initial_capital,
                                                 NoRiskManager)
            /\ UNCHANGED final_portfolio_equity
    /\ UNCHANGED <<cfg, step, disabled_names, rebalance_steps, equity_curve,
                   segments, rankingRaisedAt>>

\* The end of a loop iteration, f being the result of feeding the candle
\* to the current engine: the equity is recorded; an exception leaves run().
Record(f) ==
    /\ current_engine' = f.engine
    /\ IF f.raised = "none"
       THEN /\ equity_curve' = Append(equity_curve, f.equity)
            /\ step' = step + 1
            /\ pc' = "loop"
       ELSE /\ pc' = "raised"
            /\ UNCHANGED <<equity_curve, step>>

FeedAndRecord(engine) ==
    Record(FeedCurrentEngine(engine, cfg.candles[step + 1]))

InLoop == pc = "loop" /\ step < Len(cfg.candles)

\* An iteration at which the policy does not rebalance.
StepNoRebalance ==
    /\ InLoop
    /\ ~ShouldRebalance(cfg.interval, step)
    /\ FeedAndRecord(current_engine)
    /\ UNCHANGED <<cfg, active_strategies, disabled_names, rebalance_steps,
                   final_portfolio_equity, segments, rankingRaisedAt>>

\* A rebalance whose ranking raised: the current engine is kept.
StepRankingRaises ==
    /\ InLoop
    /\ ShouldRebalance(cfg.interval, step)
    /\ rebalance_steps' = Append(rebalance_steps, step)
    /\ rankingRaisedAt' = rankingRaisedAt \cup {step}
    /\ FeedAndRecord(current_engine)
    /\ UNCHANGED <<cfg, active_strategies, disabled_names,
                   final_portfolio_equity, segments>>

\* The engines a rebalance built at the current step.
Segment(w) ==
    [start |-> step,
     strategies |-> [i \in 1..Len(w.engines) |-> w.engines[i].strategies[1]],
     capitals |-> [i \in 1..Len(w.engines) |-> w.engines[i].initial_capital]]

\* The rest of a rebalance iteration, r being the result of steps 2 to 5.
Rebalanced(r) ==
    /\ disabled_names' = r.disabled_names
    /\ active_strategies' = r.active_strategies
    /\ segments' = Append(segments, Segment(r.engine))
    /\ FeedAndRecord(r.engine)

\* A rebalance whose ranking returned.
StepRebalance ==
    /\ InLoop
    /\ ShouldRebalance(cfg.interval, step)
    /\ rebalance_steps' = Append(rebalance_steps, step)
    /\ \E ranking_results \in RankingOutputs(cfg.strategies) :
          Rebalanced(Rebalance(cfg, disabled_names, ranking_results))
    /\ UNCHANGED <<cfg, final_portfolio_equity, rankingRaisedAt>>

\* The return of run() after the last candle.
RunReturn ==
    /\ pc = "loop"
    /\ step = Len(cfg.candles)
    /\ pc' = "done"
    /\ final_portfolio_equity' =
          IF equity_curve # <<>> THEN equity_curve[Len(equity_curve)]
          ELSE cfg.initial_capital
    /\ UNCHANGED <<cfg, step, active_strategies, disabled_names,
                   rebalance_steps, current_engine, equity_curve, segments,
                   rankingRaisedAt>>

NextLifecycle ==
    \/ (RunEnter /\ UNCHANGED FrameLifecycle)
    \/ (StepNoRebalance /\ UNCHANGED FrameLifecycle)
    \/ (StepRankingRaises /\ UNCHANGED FrameLifecycle)
    \/ (StepRebalance /\ UNCHANGED FrameLifecycle)
    \/ (RunReturn /\ UNCHANGED FrameLifecycle)

SpecLifecycle == InitLifecycle /\ [][NextLifecycle]_vars

----------------------------------------------------------------------------
(* Specification SpecMarketLoop: two identically constructed gateways and  *)
(* one candle list; one gateway is driven by hand, the other through       *)
(* MarketLoop.run.                                                         *)

LoopSetups ==
    {LoopSetup(cls, Num(2), s, rm, cs) :
        cls \in StrategyClasses, s \in Slippages, rm \in RiskManagers,
        cs \in SeqsUpTo(GatewayCandles, MaxCandles)}

InitMarketLoop ==
    /\ mlCfg \in LoopSetups
    /\ manual = SetupGateway(mlCfg)
    /\ manualCalls = 0
    /\ manualRaised = "none"
    /\ looped = NotLooped
    /\ Idle("marketloop")

\* The result o of the next on_candle call made by hand.
ManualOutcome(o) ==
    /\ manual' = o.gw
    /\ manualRaised' = o.raised
    /\ manualCalls' = manualCalls + 1

\* gateway.on_candle(candle) for the next candle; the caller stops at the
\* first exception.
ManualOnCandle ==
    /\ manualRaised = "none"
    /\ manualCalls < Len(mlCfg.candles)
    /\ ManualOutcome(OnCandle(manual, mlCfg.candles[manualCalls + 1]))
    /\ UNCHANGED <<mlCfg, looped>>

Looped(r) == [ran |-> TRUE, raised |-> r.raised, gw |-> r.gw,
              state |-> r.state]

\* MarketLoop(gateway).run(candles) on the other gateway.
MarketLoopRunCall ==
    /\ ~looped.ran
    /\ looped' = Looped(MarketLoopRun(SetupGateway(mlCfg), mlCfg.candles))
    /\ UNCHANGED <<mlCfg, manual, manualCalls, manualRaised>>

NextMarketLoop ==
    \/ (ManualOnCandle /\ UNCHANGED FrameMarketLoop)
    \/ (MarketLoopRunCall /\ UNCHANGED FrameMarketLoop)

SpecMarketLoop == InitMarketLoop /\ [][NextMarketLoop]_vars

----------------------------------------------------------------------------
(* Specification SpecPortfolio: a PortfolioEngine on which run is called,  *)
(* once or again, with one candle list.                                    *)

PortfolioStrategyLists == SeqsUpTo(StrategyClasses, 2) \ {<<>>}

PortfolioSetups ==
    {PortfolioSetup(ss, Num(4), rm, cs) :
        ss \in PortfolioStrategyLists, rm \in RiskManagers,
        cs \in SeqsUpTo(GatewayCandles, MaxCandles)}

InitPortfolio ==
    /\ peCfg \in PortfolioSetups
    /\ portfolio = SetupEngine(peCfg)
    /\ peRuns = 0
    /\ peReport = NoReport
    /\ Idle("portfolio")

\* What a run call leaves, r being its report.
Ran(r) ==
    /\ portfolio' = r.engine
    /\ peReport' = [ok |-> r.ok,
                    portfolio_equity |-> r.portfolio_equity,
                    portfolio_equity_curve |-> r.portfolio_equity_curve,
                    before |-> portfolio.gateways]

\* engine.run(candles)
PortfolioRunCall ==
    /\ peRuns < MaxRuns
    /\ Ran(PortfolioRun(portfolio, peCfg.candles))
    /\ peRuns' = peRuns + 1
    /\ UNCHANGED peCfg

NextPortfolio == PortfolioRunCall /\ UNCHANGED FramePortfolio

SpecPortfolio == InitPortfolio /\ [][NextPortfolio]_vars

----------------------------------------------------------------------------
(* Specification SpecAllocator: compute_weights of an allocator of any     *)
(* mode on a list of ranking results.                                      *)

AllocatorModes == {"equal", "sharpe", "robustness"}

\* The sharpe_ratio and the robustness of a ranking result.
MetricPairs == {<<-1, 2>>, <<0, 1>>, <<2, 0>>, <<1, -1>>}

AllocatorResults ==
    SeqsUpTo({RankingResult(name, m[1], m[2]) :
                 name \in {"AlwaysBuyHold", "BuySellAlternate"},
                 m \in MetricPairs},
             MaxResults)

InitAllocator ==
    /\ allocIn \in [mode : AllocatorModes, results : AllocatorResults]
    /\ allocOut = NotCalled
    /\ Idle("allocator")

Computed(r) == [called |-> TRUE, raised |-> r.raised, weights |-> r.weights]

\* CapitalAllocator(mode).compute_weights(results)
ComputeWeightsCall ==
    /\ ~allocOut.called
    /\ allocOut' = Computed(CapitalAllocatorCompute(allocIn.mode,
                                                    allocIn.results))
    /\ UNCHANGED allocIn

NextAllocator == ComputeWeightsCall /\ UNCHANGED FrameAllocator

SpecAllocator == InitAllocator /\ [][NextAllocator]_vars

----------------------------------------------------------------------------
(* Specification SpecMutation: mutate of a MutationEngine of any rate on a *)
(* genome, for any draws of its random generator.                          *)

MutationRates == {Zero, Rat(1, 2), One}

\* Genomes given to mutate: in bounds, with short below, at and above
\* long, and with a parameter below its bounds.
InputGenomes ==
    {Genome("moving_average", [p \in {"short", "long"} |->
                                  IF p = "short" THEN sh ELSE lg]) :
        sh \in {1, 2, 10, 20, 50}, lg \in {10, 20, 200}}
    \cup {Genome("rsi", [p \in {"period", "overbought", "oversold"} |->
                            IF p = "period" THEN pe
                            ELSE IF p = "overbought" THEN 60 + pe
                            ELSE 40 - pe]) : pe \in {4, 5, 30}}
    \cup {Genome("breakout", [p \in {"window"} |-> w]) : w \in {5, 60, 61}}

InitMutation ==
    /\ mutIn \in [genome : InputGenomes, mutation_rate : MutationRates]
    /\ mutOut = NotCalled
    /\ Idle("mutation")

\* MutationEngine(mutation_rate).mutate(genome)
MutateCall ==
    /\ ~mutOut.called
    /\ IF ValidateGenome(mutIn.genome)
       THEN \E m \in MutateOutcomes(mutIn.genome, mutIn.mutation_rate) :
               mutOut' = [called |-> TRUE, raised |-> "none", genome |-> m]
       ELSE mutOut' = [called |-> TRUE, raised |-> "ValueError",
                       genome |-> mutIn.genome]
    /\ UNCHANGED mutIn

NextMutation == MutateCall /\ UNCHANGED FrameMutation

SpecMutation == InitMutation /\ [][NextMutation]_vars

----------------------------------------------------------------------------
(* Specification SpecFitness: evaluate of a FitnessEvaluator of either     *)
(* mode on a genome.                                                       *)

FitnessModes == {"fast", "full"}

FitnessCandles == SeqsUpTo({Candle(c) : c \in Closes}, MaxCandles)

FitnessGenomes ==
    {Genome("moving_average", [p \in {"short", "long"} |->
                                  IF p = "short" THEN sh ELSE 10]) :
        sh \in {1, 2}}
    \cup {Genome("breakout", [p \in {"window"} |-> 5])}

\* What the ranking pipeline after the backtest gives: an exception, a
\* composite score, or a score that is not a number.
PipelineOutcomes ==
    {[raised |-> "ValueError", score |-> NaN],
     [raised |-> "none", score |-> NaN],
     [raised |-> "none", score |-> Finite(NoSurd, Num(3))]}

InitFitness ==
    /\ fitIn \in [evaluator : {FitnessEvaluator(cs, Num(1000), m) :
                                  cs \in FitnessCandles, m \in FitnessModes},
                  genome : FitnessGenomes]
    /\ fitOut = NotCalled
    /\ Idle("fitness")

Returned(e) == [called |-> TRUE, raised |-> e.raised,
                fitness |-> e.fitness, call |-> e.call]

\* evaluator.evaluate(genome)
EvaluateCall ==
    /\ ~fitOut.called
    /\ \E pipeline \in PipelineOutcomes :
          fitOut' = Returned(Evaluate(fitIn.evaluator, fitIn.genome, pipeline))
    /\ UNCHANGED fitIn

NextFitness == EvaluateCall /\ UNCHANGED FrameFitness

SpecFitness == InitFitness /\ [][NextFitness]_vars

----------------------------------------------------------------------------
(* Specification SpecEvolution: EvolutionEngine.run, one generation per    *)
(* step, for any draws of the random generators.                           *)

PopulationSizes == {2, 3}

\* The candles the engines evaluate on: closes 1, 2.
EvolutionCandles == <<Candle(Num(1)), Candle(Num(2))>>

\* Engines that breed at most one child a generation: all genomes but one
\* are elites, or all are (an elitism of 5 is cut to the population
\* size), in fast mode, those that mutate with two genomes and at most two
\* generations; and
\* engines without elites that breed two children of one-entry tournaments,
\* without mutation.
EvolutionEngines ==
    {e \in {EvolutionEngine(EvolutionCandles, ps, gens, mr, Rat(1, 2), el,
                            2, "fast") :
                ps \in PopulationSizes, gens \in 1..MaxGenerations,
                mr \in {Zero, One}, el \in {1, 2, 5}} :
        /\ e.population_size - e.elitism <= 1
        /\ (e.mutation_rate = One =>
               e.population_size = 2 /\ e.generations <= 2)}
    \cup {EvolutionEngine(EvolutionCandles, 2, gens, Zero, Rat(1, 2), el,
                          1, "fast") :
              gens \in 1..MaxGenerations, el \in {-1, 0}}

\* The ranking pipeline does not run in fast mode.
NoPipeline == [raised |-> "none", score |-> NaN]

\* The genomes _init_population can draw: a type, every parameter within
\* its bounds, and for moving_average a second draw of short, and of long
\* above it.
InitGenomes ==
    UNION {IF gtype = "moving_average"
           THEN UNION {{Genome(gtype, [p \in ParamSet(gtype) |->
                                         IF p = "short" THEN sh ELSE lg]) :
                          lg \in RandInt(Max(sh + 1,
                                             GENOME_BOUNDS(gtype, "long")[1]),
                                         GENOME_BOUNDS(gtype, "long")[2])} :
                         sh \in RandInt(GENOME_BOUNDS(gtype, "short")[1],
                                        GENOME_BOUNDS(gtype, "short")[2])}
           ELSE {Genome(gtype, f) :
                    f \in {f \in [ParamSet(gtype) ->
                                     UNION {RandInt(GENOME_BOUNDS(gtype, p)[1],
                                                    GENOME_BOUNDS(gtype, p)[2]) :
                                               p \in ParamSet(gtype)}] :
                              \A p \in ParamSet(gtype) :
                                  f[p] \in RandInt(GENOME_BOUNDS(gtype, p)[1],
                                                   GENOME_BOUNDS(gtype, p)[2])}} :
             gtype \in {GENOME_TYPES[i] : i \in 1..Len(GENOME_TYPES)}}

\* The draws the populations start from: breakout genomes at the two ends
\* of the window bounds, and two moving_average genomes whose crossover can
\* put short above long.
SeedGenomes ==
    {g \in InitGenomes :
        \/ (g.type = "breakout" /\ g.params["window"] \in {5, 60})
        \/ (g.type = "moving_average"
            /\ <<g.params["short"], g.params["long"]>>
                   \in {<<3, 10>>, <<50, 51>>})}

InitEvolution ==
    /\ evo \in EvolutionEngines
    /\ EvolutionConstructed
    /\ Idle("evolution")

\* run() up to the loop: population = self._init_population()
EvolutionStart ==
    /\ evoPc = "constructed"
    /\ evoPc' = "running"
    /\ population' \in [1..evo.population_size -> SeedGenomes]
    /\ UNCHANGED <<evo, gen, generation_bests, history, evoResult>>

\* The body of the generation loop, the scores of the population being
\* given: history, sort, generation best, next population.
Evolve(scored) ==
    /\ history' = history \o [i \in 1..Len(scored) |->
                                 [generation |-> gen,
                                  genome |-> scored[i].genome,
                                  fitness |-> scored[i].score]]
    /\ generation_bests' =
          Append(generation_bests, SortScored(scored)[1].score)
    /\ population' \in NextPopulations(evo, SortScored(scored))

\* One generation.
Generation ==
    /\ evoPc = "running"
    /\ gen < evo.generations
    /\ Evolve(Scored(evo, population, NoPipeline))
    /\ gen' = gen + 1
    /\ UNCHANGED <<evo, evoPc, evoResult>>

\* The result of run, the sorted final scores being given.
Best(final_scored) ==
    [returned |-> TRUE,
     best_genome |-> final_scored[1].genome,
     best_fitness |-> final_scored[1].score]

\* The final evaluation and the return of run.
EvolutionReturn ==
    /\ evoPc = "running"
    /\ gen = evo.generations
    /\ evoPc' = "done"
    /\ evoResult' = Best(SortScored(Scored(evo, population, NoPipeline)))
    /\ UNCHANGED <<evo, population, gen, generation_bests, history>>

NextEvolution ==
    \/ (EvolutionStart /\ UNCHANGED FrameEvolution)
    \/ (Generation /\ UNCHANGED FrameEvolution)
    \/ (EvolutionReturn /\ UNCHANGED FrameEvolution)

SpecEvolution == InitEvolution /\ [][NextEvolution]_vars

----------------------------------------------------------------------------
(* Specification SpecRisk: one adjust_order call of a RiskManager.         *)

RiskEquities == {Num(-1), Zero, Num(2), Num(4)}

RiskOrders ==
    {OrderObject("o1", t, Order(side, Num(q), Num(p))) :
        t \in {"None", "t1"}, side \in {BUY, SELL},
        q \in 0..3, p \in 0..2}

\* The ids uuid4 can give a new Order: no other order has them.
FreshIds == {"o2", "o3"}

InitRisk ==
    /\ riskIn \in [rm : {RiskManager(Rat(1, 2)), RiskManager(One)},
                   order : RiskOrders, equity : RiskEquities]
    /\ riskOut = NotCalled
    /\ Idle("risk")

Capped(r) == [called |-> TRUE, raised |-> r.raised, order |-> r.order]

\* RiskManager.adjust_order(order, equity)
AdjustOrderCall ==
    /\ ~riskOut.called
    /\ \E uuid \in FreshIds :
          riskOut' = Capped(AdjustObject(riskIn.rm, riskIn.order,
                                            riskIn.equity, uuid))
    /\ UNCHANGED riskIn

NextRisk == AdjustOrderCall /\ UNCHANGED FrameRisk

SpecRisk == InitRisk /\ [][NextRisk]_vars

----------------------------------------------------------------------------
(* Specification SpecBacktest: one run call of a Backtester.               *)

BacktestCandles ==
    SeqsUpTo(GatewayCandles \cup {Candle(Zero)}, MaxCandles)

\* transaction_cost_pct and slippage_pct, in percent.
BacktestPcts == {Zero, Num(50)}

InitBacktest ==
    /\ btIn \in [initial_cash : {Num(1000)}, candles : BacktestCandles,
                 transaction_cost_pct : BacktestPcts,
                 slippage_pct : BacktestPcts]
    /\ btOut = NotCalled
    /\ Idle("backtest")

Backtested(r) == [called |-> TRUE, result |-> r]

\* Backtester(initial_cash).run(candles, transaction_cost_pct=...,
\* slippage_pct=...)
BacktesterRunCall ==
    /\ ~btOut.called
    /\ btOut' = Backtested(BacktesterRunWith(btIn.initial_cash, btIn.candles,
                                             btIn.transaction_cost_pct,
                                             btIn.slippage_pct))
    /\ UNCHANGED btIn

NextBacktest == BacktesterRunCall /\ UNCHANGED FrameBacktest

SpecBacktest == InitBacktest /\ [][NextBacktest]_vars

----------------------------------------------------------------------------
(* Specification SpecResearch: one call of a research function:            *)
(* walk_forward_analysis, analyze_strategy or MonteCarloEngine.analyze.    *)

\* Candle lists of every length up to MaxHistory, closes 1, 2, 3, ...
Histories == {[i \in 1..n |-> Candle(Num(i))] : n \in 0..MaxHistory}

WalkInputs ==
    [fn : {"walk_forward_analysis"}, candles : Histories,
     train_size : 1..3, test_size : 1..3, step_size : 0..2,
     initial_cash : {Num(1000)}]

StabilityInputs ==
    [fn : {"analyze_strategy"}, candles : Histories, window_size : 1..4,
     initial_cash : {Num(1000)}]

\* The cycles of floats a seed can fix.
Cycles == [1..3 -> Uniforms]

\* Without a seed (None, written <<>>), the generator seeds itself from the
\* system: any cycle.
CyclesOf(seed) == IF seed = <<>> THEN Cycles ELSE {seed}

\* An absent returns_series or trades (None) is written <<>>.
MonteCarloInputs ==
    [fn : {"analyze"}, initial_cash : {Num(1000)},
     seed : Cycles \cup {<<>>},
     returns_series : {<<Rat(1, 2)>>, <<Rat(1, 2), Rat(-1, 2)>>,
                       <<Rat(1, 10), Zero, Rat(-1, 2)>>},
     trades : {<<>>, <<Rat(1, 2), Rat(-1, 2)>>},
     mode : {"returns", "trades", "execution", "live"},
     simulations : 0..2,
     slippage_std : {Num(-1), Zero, Rat(1, 2)},
     shock_std : {Num(-1), Zero, Rat(1, 2)}]

InitResearch ==
    /\ resIn \in WalkInputs \cup StabilityInputs \cup MonteCarloInputs
    /\ resOut = NotCalled
    /\ Idle("research")

Analyzed(r) == [called |-> TRUE, result |-> r]

\* walk_forward_analysis(strategy_class, candles, train_size, test_size,
\* step_size, initial_cash)
WalkForwardCall ==
    /\ ~resOut.called
    /\ resIn.fn = "walk_forward_analysis"
    /\ resOut' = Analyzed(WalkForwardAnalysis(resIn.candles, resIn.train_size,
                                              resIn.test_size,
                                              resIn.step_size,
                                              resIn.initial_cash))
    /\ UNCHANGED resIn

\* analyze_strategy(strategy_class, candles, window_size, initial_cash)
AnalyzeStrategyCall ==
    /\ ~resOut.called
    /\ resIn.fn = "analyze_strategy"
    /\ resOut' = Analyzed(AnalyzeStrategy(resIn.candles, resIn.window_size,
                                          resIn.initial_cash))
    /\ UNCHANGED resIn

\* MonteCarloEngine(initial_cash, seed).analyze(returns_series, trades, mode,
\* simulations, slippage_std, shock_std)
MonteCarloAnalyzeCall ==
    /\ ~resOut.called
    /\ resIn.fn = "analyze"
    /\ \E cycle \in CyclesOf(resIn.seed) :
           resOut' = Analyzed(MonteCarloAnalyze(resIn.initial_cash, cycle,
                                                resIn))
    /\ UNCHANGED resIn

NextResearch ==
    \/ (MonteCarloAnalyzeCall /\ UNCHANGED FrameResearch)
    \/ (WalkForwardCall /\ UNCHANGED FrameResearch)
    \/ (AnalyzeStrategyCall /\ UNCHANGED FrameResearch)

SpecResearch == InitResearch /\ [][NextResearch]_vars

----------------------------------------------------------------------------
(* Specification SpecTwin: two EvolutionEngines constructed with the same  *)
(* arguments, run one after the other.                                     *)

\* The seeds: None (<<>>), or a cycle of two numbers that fixes the draws.
Seeds == {<<>>} \cup [1..2 -> 0..1]

\* Seeded engines are those of SpecEvolution; engines without a seed have
\* one generation and do not mutate.
Twins ==
    {t \in [evo : EvolutionEngines, seed : Seeds] :
        t.seed = <<>> => (t.evo.generations = 1 /\ t.evo.mutation_rate = Zero)}

InitTwin ==
    /\ twin \in Twins
    /\ twinRun = NoRun
    /\ twinResults = <<>>
    /\ Idle("twin")

\* run() of the next engine up to the loop: self._init_population()
TwinStart ==
    /\ Len(twinResults) < 2
    /\ twinRun.pc = "constructed"
    /\ \E p \in Draws(twin.seed, 0,
                      [1..twin.evo.population_size -> SeedGenomes]) :
           twinRun' = RunStarted(twinRun, p)
    /\ UNCHANGED <<twin, twinResults>>

\* One generation of the engine that is running.
TwinGeneration ==
    /\ twinRun.pc = "running"
    /\ twinRun.gen < twin.evo.generations
    /\ \E p \in Draws(twin.seed, twinRun.gen + 1,
                      NextPopulations(twin.evo,
                                      SortScored(Scored(twin.evo,
                                                        twinRun.population,
                                                        NoPipeline)))) :
           twinRun' = RunEvolved(twinRun,
                                 Scored(twin.evo, twinRun.population,
                                        NoPipeline),
                                 p)
    /\ UNCHANGED <<twin, twinResults>>

\* The final evaluation and the return of run; the other engine is new.
TwinReturn ==
    /\ twinRun.pc = "running"
    /\ twinRun.gen = twin.evo.generations
    /\ twinResults' =
          Append(twinResults,
                 RunReturned(twinRun,
                             SortScored(Scored(twin.evo, twinRun.population,
                                               NoPipeline))))
    /\ twinRun' = NoRun
    /\ UNCHANGED twin

NextTwin ==
    \/ (TwinStart /\ UNCHANGED FrameTwin)
    \/ (TwinGeneration /\ UNCHANGED FrameTwin)
    \/ (TwinReturn /\ UNCHANGED FrameTwin)

SpecTwin == InitTwin /\ [][NextTwin]_vars

----------------------------------------------------------------------------
(* Properties of the paper broker (SpecBroker) *)

\* C5: after any sequence of execute_order calls, for any order the Order
\* constructor accepts, cash >= 0 and position_size >= 0.
C5_CashAndPositionNonNegative ==
    /\ RLe(Zero, broker.cash)
    /\ RLe(Zero, broker.position_size)

\* The cost of a BUY and the proceeds of a SELL at the broker's slippage.
BuyCost(b, order) ==
    RMul(RMul(order.price, RAdd(One, b.slippage_pct)), order.quantity)

SellProceeds(b, order) ==
    RMul(RMul(order.price, RSub(One, b.slippage_pct)), order.quantity)

MustFail(b, order) ==
    \/ order.side = BUY /\ RLt(b.cash, BuyCost(b, order))
    \/ order.side = SELL /\ RLt(b.position_size, order.quantity)
    \/ order.side \notin {BUY, SELL}

\* C6: an execute_order call fails exactly when the BUY costs more than the
\* cash, the SELL exceeds the position or the side is unknown, and then cash
\* and position_size are what they were; a call that succeeds updates both:
\* the cash by the cost or the proceeds, the position by the quantity.
C6_AtomicExecuteOrder ==
    [][calls' = calls + 1 =>
         LET order == lastCall'.order
         IN  IF MustFail(broker, order)
             THEN /\ ~lastCall'.ok
                  /\ broker'.cash = broker.cash
                  /\ broker'.position_size = broker.position_size
             ELSE /\ lastCall'.ok
                  /\ IF order.side = BUY
                     THEN /\ broker'.cash =
                               RSub(broker.cash, BuyCost(broker, order))
                          /\ broker'.position_size =
                               RAdd(broker.position_size, order.quantity)
                     ELSE /\ broker'.cash =
                               RAdd(broker.cash, SellProceeds(broker, order))
                          /\ broker'.position_size =
                               RSub(broker.position_size, order.quantity)
    ]_vars

\* A BUY that cost more than the cash has just been refused, after an
\* earlier call changed the broker.
C6_Witness ==
    /\ calls >= 2
    /\ ~lastCall.ok
    /\ lastCall.order.side = BUY
    /\ RLt(broker.cash, BuyCost(broker, lastCall.order))
    /\ RLt(Zero, broker.position_size)

----------------------------------------------------------------------------
(* Properties of the execution gateway (SpecGateway) *)

LastTrade == gateway.trade_history[Len(gateway.trade_history)]

\* C7: a broker failure is never caught: the on_candle call during which
\* execute_order raised raises too; and after any sequence of on_candle
\* calls the trade history has one entry per fill of the broker, in order,
\* and the gateway is LONG iff the last recorded trade is a BUY.
C7_FailuresPropagateHistoryMatchesFills ==
    /\ lastOn.brokerFailed => lastOn.raised = "ValueError"
    /\ Len(gateway.trade_history) = Len(fills)
    /\ \A i \in 1..Len(fills) :
          /\ gateway.trade_history[i].type = fills[i].side
          /\ gateway.trade_history[i].price = fills[i].price
          /\ gateway.trade_history[i].shares = fills[i].quantity
    /\ gateway.state = "LONG" <=>
          (gateway.trade_history # <<>> /\ LastTrade.type = "BUY")

\* The broker has just refused the order of an on_candle call, after
\* earlier calls on the same gateway.
C7_Witness ==
    /\ gwCalls >= 2
    /\ lastOn.brokerFailed
    /\ lastOn.raised = "ValueError"
    /\ lastOn.signal = BUY

RedundantSignal(signal, state) ==
    \/ signal = SELL /\ state = "FLAT"
    \/ signal = BUY /\ state = "LONG"

\* C8: SELL while FLAT or BUY while LONG executes no order and leaves the
\* gateway state, the broker's cash and position_size and the trade history
\* unchanged.
C8_RedundantSignalIgnored ==
    [][(gwCalls' = gwCalls + 1
          /\ RedundantSignal(lastOn'.signal, gateway.state)) =>
         /\ ~lastOn'.brokerFailed
         /\ fills' = fills
         /\ gateway'.state = gateway.state
         /\ gateway'.broker.cash = gateway.broker.cash
         /\ gateway'.broker.position_size = gateway.broker.position_size
         /\ gateway'.trade_history = gateway.trade_history
    ]_vars

\* A BUY signal has just been processed by a gateway that was LONG, on a
\* candle that carries a close.
C8_Witness ==
    /\ lastOn.signal = BUY
    /\ lastOn.stateBefore = "LONG"
    /\ lastOn.candle.has_close
    /\ lastOn.raised = "none"
    /\ gateway.state = "LONG"

\* C9: a BUY signal while FLAT (on a candle with a close) executes one BUY
\* order at the close, all-in when there is no risk manager, records the
\* fill and leaves the gateway LONG; a SELL signal while LONG sells the
\* entire position, records the fill and leaves the gateway FLAT.
C9_SignalExecutes ==
    [][(gwCalls' = gwCalls + 1 /\ lastOn'.candle.has_close) =>
         LET close == lastOn'.candle.close
             n == Len(gateway.trade_history)
         IN  /\ (lastOn'.signal = BUY /\ gateway.state = "FLAT") =>
                    /\ lastOn'.raised = "none"
                    /\ gateway'.state = "LONG"
                    /\ Len(gateway'.trade_history) = n + 1
                    /\ gateway'.trade_history[n + 1].type = "BUY"
                    /\ fills' = Append(fills, fills'[Len(fills')])
                    /\ fills'[Len(fills')].side = BUY
                    /\ ~gateway.risk_manager.present =>
                          gateway'.trade_history[n + 1].shares =
                              RDiv(gateway.broker.cash, close)
             /\ (lastOn'.signal = SELL /\ gateway.state = "LONG") =>
                    /\ lastOn'.raised = "none"
                    /\ gateway'.state = "FLAT"
                    /\ Len(gateway'.trade_history) = n + 1
                    /\ gateway'.trade_history[n + 1].type = "SELL"
                    /\ gateway'.trade_history[n + 1].shares =
                          gateway.broker.position_size
                    /\ gateway'.broker.position_size = Zero
    ]_vars

----------------------------------------------------------------------------
(* Properties of the portfolio lifecycle manager (SpecLifecycle) *)

Deployed(seg) == SumSeq(seg.capitals)

\* C1: the capital deployed at the start of every segment after the first
\* equals the last equity of the preceding segment.
C1_CapitalRollsForward ==
    \A i \in 2..Len(segments) :
        segments[i].start <= Len(equity_curve) =>
            Deployed(segments[i]) = equity_curve[segments[i].start]

\* C2: a ranking that raises, at step 0 or later, does not make run raise.
C2_RankingFailureTolerated ==
    rankingRaisedAt # {} => pc # "raised"

\* C3: every run returns, with one equity entry per candle.
C3_CurveLengthEqualsCandles ==
    pc \in {"done", "raised"} =>
        (pc = "done" /\ Len(equity_curve) = Len(cfg.candles))

\* The end (exclusive, 0-based) of segment i among the candles recorded.
SegmentEnd(i) ==
    IF i < Len(segments) THEN segments[i + 1].start ELSE Len(equity_curve)

\* The equity curve of one single-strategy portfolio run once over the
\* candles of segment i.
SinglePassCurve(i, e) ==
    PortfolioRun(PortfolioEngine(<<segments[i].strategies[e]>>,
                                 segments[i].capitals[e], NoRiskManager),
                 SubSeq(cfg.candles, segments[i].start + 1, SegmentEnd(i))
                ).portfolio_equity_curve

\* C4: within each segment the equity recorded for a candle is the sum,
\* over the strategies of the segment, of the single-pass equity curves.
C4_SegmentEquityIsSinglePassSum ==
    \A i \in 1..Len(segments) :
        \A k \in 1..(SegmentEnd(i) - segments[i].start) :
            equity_curve[segments[i].start + k] =
                SumSeq([e \in 1..Len(segments[i].strategies) |->
                           SinglePassCurve(i, e)[k]])

NonDecreasing(curve) ==
    \A i \in 1..(Len(curve) - 1) : RLe(curve[i], curve[i + 1])

\* C10: ten candles 100, 110, ..., 190, one buy-and-hold strategy, capital
\* 1000 and interval 3 give a final equity >= 1000 and a non-decreasing
\* equity curve.
C10_RisingBuyAndHold ==
    (/\ pc = "done"
     /\ cfg.candles = RisingCandles
     /\ cfg.strategies = <<"AlwaysBuyHold">>
     /\ cfg.initial_capital = Num(1000)
     /\ cfg.interval = 3) =>
        /\ RLe(Num(1000), final_portfolio_equity)
        /\ NonDecreasing(equity_curve)

\* The positions of the original strategies that are not disabled.
Remaining(disabled) ==
    {i \in 1..Len(cfg.strategies) : ~InSeq(cfg.strategies[i], disabled)}

\* C11: a disabled strategy stays disabled for the rest of the run, and the
\* active list chosen by every rebalance whose ranking returned is the
\* original strategies minus the disabled ones, in their order, or all the
\* original strategies when none remains; it is never empty.
C11_DisablingIsPermanent ==
    [][/\ \A k \in 1..Len(disabled_names) :
              InSeq(disabled_names[k], disabled_names')
       /\ Len(segments') = Len(segments) + 1 =>
              /\ active_strategies' # <<>>
              /\ IF Remaining(disabled_names') = {}
                 THEN active_strategies' = cfg.strategies
                 ELSE /\ Len(active_strategies') =
                             Cardinality(Remaining(disabled_names'))
                      /\ \A i \in 1..Len(cfg.strategies) :
                             InSeq(cfg.strategies[i], active_strategies') <=>
                                 i \in Remaining(disabled_names')
    ]_vars

\* A strategy disabled at the first rebalance is still disabled, and still
\* left out of the active list, after a later rebalance whose ranking
\* returned.
C11_Witness ==
    /\ Len(segments) >= 2
    /\ cfg.strategies = <<"AlwaysBuyHold", "BuySellAlternate">>
    /\ segments[1].strategies = <<"BuySellAlternate">>
    /\ disabled_names = <<"AlwaysBuyHold">>
    /\ active_strategies = <<"BuySellAlternate">>

\* The indices i of [0, n) with i mod k = 0, ascending.
RebalancePoints(n, k) == [j \in 1..((n + k - 1) \div k) |-> (j - 1) * k]

\* C12: the rebalance_steps that run returns for n candles and interval k
\* are the indices of [0, n) that are multiples of k, ascending and without
\* duplicates; while the loop runs they are those below the current step.
C12_RebalanceStepsAreMultiples ==
    pc \in {"loop", "done"} =>
        rebalance_steps = RebalancePoints(step, cfg.interval)

\* A run over three candles with interval 2 has returned the steps 0 and 2.
C12_Witness ==
    /\ pc = "done"
    /\ Len(cfg.candles) = 3
    /\ cfg.interval = 2
    /\ rebalance_steps = <<0, 2>>

----------------------------------------------------------------------------
(* Properties of the market loop (SpecMarketLoop) *)

ManualDone == manualCalls = Len(mlCfg.candles) \/ manualRaised # "none"

\* C13: MarketLoop.run over the candles leaves its gateway in the state in
\* which on_candle calls made by hand, candle after candle, leave an
\* identically constructed gateway, raises what they raise, and returns
\* the get_state snapshot of that state: cash, position_size, equity,
\* equity_curve, trade_history and FLAT/LONG.
C13_MarketLoopEqualsManualCalls ==
    (looped.ran /\ ManualDone) =>
        /\ looped.raised = manualRaised
        /\ looped.gw = manual
        /\ looped.raised = "none" => looped.state = GetState(manual)

\* Both gateways went through at least two candles and traded twice.
C13_Witness ==
    /\ looped.ran
    /\ looped.raised = "none"
    /\ manualCalls = Len(mlCfg.candles)
    /\ manualCalls >= 2
    /\ Len(manual.trade_history) >= 2
    /\ Len(looped.state.trade_history) >= 2

----------------------------------------------------------------------------
(* Properties of the portfolio engine (SpecPortfolio) *)

\* The gateway gw after on_candle was called on it for the first i candles.
After(gw, candles, i) == MarketLoopFrom(gw, SubSeq(candles, 1, i), 1).gw

\* C14: portfolio_equity_curve[i] of a run is the sum, over the strategies,
\* of cash + position_size * close_i of the strategy's own broker after its
\* gateway processed the candles up to i, and a run that returns gives one
\* entry per candle.
C14_CurveIsSumOfMarkToMarket ==
    peRuns >= 1 =>
        /\ peReport.ok =>
               Len(peReport.portfolio_equity_curve) = Len(peCfg.candles)
        /\ \A i \in 1..Len(portfolio.portfolio_equity_curve) :
               portfolio.portfolio_equity_curve[i] =
                   SumSeq([k \in 1..Len(peCfg.strategies) |->
                              Equity(After(peReport.before[k],
                                           peCfg.candles, i),
                                     peCfg.candles[i].close)])

\* A first run of two strategies over two candles or more has returned a
\* curve that moves.
C14_Witness ==
    /\ peRuns = 1
    /\ peReport.ok
    /\ Len(peCfg.strategies) = 2
    /\ Len(peReport.portfolio_equity_curve) >= 2
    /\ peReport.portfolio_equity_curve[1] # peReport.portfolio_equity_curve[2]

\* A gateway for the only strategy of the set-up, on a broker funded with
\* the whole capital, driven over the candles of the set-up.
Standalone ==
    MarketLoopRun(ExecutionGateway(peCfg.strategies[1],
                                   PaperBroker(peCfg.initial_capital, Zero),
                                   peCfg.risk_manager),
                  peCfg.candles)

\* C15: the first run of a PortfolioEngine built with one strategy and
\* capital C reports the equity and the per-candle equity curve of a
\* standalone gateway for that strategy on a broker funded with C, driven
\* over the same candles; it raises when the gateway raises.
C15_SingleStrategyEqualsGateway ==
    (peRuns = 1 /\ Len(peCfg.strategies) = 1) =>
        /\ peReport.ok <=> Standalone.raised = "none"
        /\ peReport.ok =>
               /\ peReport.portfolio_equity = Standalone.state.equity
               /\ peReport.portfolio_equity_curve =
                      Standalone.state.equity_curve

\* A single-strategy engine has run once over two candles or more during
\* which its strategy bought and sold.
C15_Witness ==
    /\ peRuns = 1
    /\ peReport.ok
    /\ peCfg.strategies = <<"BuySellAlternate">>
    /\ Len(peCfg.candles) >= 2
    /\ Len(portfolio.gateways[1].trade_history) >= 2
    /\ Standalone.state.equity_curve = peReport.portfolio_equity_curve

----------------------------------------------------------------------------
(* Properties of the capital allocator (SpecAllocator) *)

RECURSIVE SumRats(_, _)
SumRats(f, S) ==
    IF S = {} THEN Zero
    ELSE LET x == CHOOSE y \in S : TRUE
         IN  RAdd(f[x], SumRats(f, S \ {x}))

\* C16: for every mode and every non-empty list of ranking results,
\* compute_weights returns weights that sum to 1.
C16_WeightsSumToOne ==
    (allocOut.called /\ allocIn.results # <<>>) =>
        /\ allocOut.raised = "none"
        /\ SumRats(allocOut.weights, DOMAIN allocOut.weights) = One

----------------------------------------------------------------------------
(* Properties of the mutation engine (SpecMutation) *)

\* C17: whatever the mutation rate and the draws, the genome mutate
\* returns for a genome it accepts has the type of that genome and every
\* parameter within its declared bounds, and short < long for a
\* moving_average.
C17_MutatedGenomeWithinBounds ==
    (mutOut.called /\ ValidateGenome(mutIn.genome)) =>
        /\ mutOut.raised = "none"
        /\ mutOut.genome.type = mutIn.genome.type
        /\ DOMAIN mutOut.genome.params = ParamSet(mutIn.genome.type)
        /\ \A p \in ParamSet(mutIn.genome.type) :
               /\ GENOME_BOUNDS(mutIn.genome.type, p)[1]
                      <= mutOut.genome.params[p]
               /\ mutOut.genome.params[p]
                      <= GENOME_BOUNDS(mutIn.genome.type, p)[2]
        /\ mutOut.genome.type = "moving_average" =>
               mutOut.genome.params["short"] < mutOut.genome.params["long"]

\* A moving_average genome with short above long was accepted, and came
\* back with short at its upper bound and long above it.
C17_Witness ==
    /\ mutOut.called
    /\ mutOut.raised = "none"
    /\ mutIn.genome.type = "moving_average"
    /\ mutIn.genome.params["short"] > mutIn.genome.params["long"]
    /\ mutOut.genome.params["short"] = 50
    /\ mutOut.genome.params["long"] = 51

----------------------------------------------------------------------------
(* Properties of the fitness evaluator (SpecFitness) *)

Backtest == BacktesterRun(fitIn.evaluator.initial_cash,
                          fitIn.evaluator.candles)

\* C20: in fast mode evaluate runs the backtester for the strategy of the
\* genome; it returns the penalty -100 when that backtest raises or has
\* |return_pct| < 0.01, and sharpe_ratio - 0.5 * |max_drawdown_pct| of
\* that backtest otherwise.
C20_FastFitnessIsSharpeMinusDrawdown ==
    (/\ fitOut.called
     /\ fitIn.evaluator.mode = "fast"
     /\ ValidateGenome(fitIn.genome)) =>
        /\ fitOut.call.bound
        /\ fitOut.fitness =
               IF \/ Backtest.raised # "none"
                  \/ RLt(RAbs(Backtest.return_pct), Rat(1, 100))
               THEN ZERO_TRADE_PENALTY
               ELSE Finite(Backtest.sharpe_ratio,
                           RSub(Zero,
                                RMul(RAbs(Backtest.max_drawdown_pct),
                                     Rat(1, 2))))

----------------------------------------------------------------------------
(* Properties of the evolution engine (SpecEvolution) *)

\* The number of genomes carried over.
Carried == IF evo.elitism > 0 THEN evo.elitism ELSE 0

\* C18: at every generation the next population starts with the top
\* elitism genomes of the generation, unchanged: genomes of the current
\* population, each taken once, whose recorded fitness no other genome of
\* the population exceeds.
C18_ElitesCarriedUnchanged ==
    [][gen' = gen + 1 =>
         \E f \in [1..Carried -> 1..Len(population)] :
             /\ \A a, b \in 1..Carried : a # b => f[a] # f[b]
             /\ \A a \in 1..Carried :
                    /\ population'[a] = population[f[a]]
                    /\ \A j \in 1..Len(population) :
                           (\A b \in 1..Carried : f[b] # j) =>
                               ~FitnessLt(history'[Len(history) + f[a]].fitness,
                                          history'[Len(history) + j].fitness)
    ]_vars

\* After a generation with elitism 1 the population holds the genome that
\* was first in the initial population and a child that is new.
C18_Witness ==
    /\ gen >= 1
    /\ evo.elitism = 1
    /\ evo.population_size = 2
    /\ population[1] = history[1].genome
    /\ population[2] # history[1].genome
    /\ population[2] # history[2].genome

\* A genome within the bounds of its family, with short < long for a
\* moving_average genome.
WellFormed(genome) ==
    /\ ValidateGenome(genome)
    /\ genome.type = "moving_average" =>
           genome.params["short"] < genome.params["long"]

\* C27: throughout a run, every genome of the population, every genome
\* recorded in history and the returned best_genome has all its parameters
\* within the bounds of its family and, for moving_average, short < long.
C27_GenomesStayWellFormed ==
    /\ evoPc = "constructed" => \A g \in InitGenomes : WellFormed(g)
    /\ \A i \in 1..Len(population) : WellFormed(population[i])
    /\ \A i \in 1..Len(history) : WellFormed(history[i].genome)
    /\ evoResult.returned => WellFormed(evoResult.best_genome)

\* A run has returned a moving_average genome that was not in the initial
\* population, after recording another such genome in a later generation.
C27_Witness ==
    /\ evoResult.returned
    /\ evoResult.best_genome.type = "moving_average"
    /\ evoResult.best_genome \notin SeedGenomes
    /\ \E i \in 1..Len(history) :
           /\ history[i].generation >= 1
           /\ history[i].genome.type = "moving_average"
           /\ history[i].genome \notin SeedGenomes

----------------------------------------------------------------------------
(* More properties of the portfolio engine (SpecPortfolio) *)

\* C30: a further run of the same engine on the same candles returns what
\* the run before it returned: the same portfolio_equity, the same
\* portfolio_equity_curve and the same per-strategy report.
C30_RunIsIdempotent ==
    [][(peRuns >= 1 /\ peRuns' = peRuns + 1) =>
         /\ peReport'.ok = peReport.ok
         /\ peReport'.portfolio_equity = peReport.portfolio_equity
         /\ peReport'.portfolio_equity_curve = peReport.portfolio_equity_curve
         /\ StrategiesState(portfolio') = StrategiesState(portfolio)
    ]_vars

----------------------------------------------------------------------------
(* More properties of the execution gateway (SpecGateway) *)

\* C28: after any sequence of on_candle calls the gateway is FLAT exactly
\* when the position_size of its broker is 0 and LONG exactly when it is
\* above 0.
C28_StateMatchesPosition ==
    /\ gateway.state = "FLAT" <=> gateway.broker.position_size = Zero
    /\ gateway.state = "LONG" <=> RLt(Zero, gateway.broker.position_size)

----------------------------------------------------------------------------
(* Properties of the risk manager (SpecRisk) *)

\* The quantity limit of a BUY: equity * max_position_pct / price, and 0
\* for a price that is not positive.
Limit ==
    IF RLt(Zero, riskIn.order.fields.price)
    THEN RDiv(RMul(riskIn.equity, riskIn.rm.max_position_pct),
              riskIn.order.fields.price)
    ELSE Zero

SameOrder == riskOut.raised = "none" /\ riskOut.order = riskIn.order

NewOrder(quantity) ==
    /\ riskOut.raised = "none"
    /\ riskOut.order.id # riskIn.order.id
    /\ riskOut.order.timestamp = riskIn.order.timestamp
    /\ riskOut.order.fields.side = riskIn.order.fields.side
    /\ riskOut.order.fields.price = riskIn.order.fields.price
    /\ riskOut.order.fields.quantity = quantity

\* C26: adjust_order returns the same order (same id) for a SELL and for a
\* BUY whose quantity is at most the limit equity * max_position_pct /
\* price, equality included, and else a new order with another id, the
\* same side, price and timestamp and the limit as quantity.  Outside the
\* domain of the quotient and of the method: the limit is 0 for a price
\* that is not above 0, and an equity below 0 raises ValueError.
C26_SameOrderUpToLimit ==
    riskOut.called =>
        IF RLt(riskIn.equity, Zero)
        THEN riskOut.raised = "ValueError"
        ELSE IF riskIn.order.fields.side = SELL
                \/ RLe(riskIn.order.fields.quantity, Limit)
        THEN SameOrder
        ELSE NewOrder(Limit)

\* A BUY whose quantity is exactly the limit 4 * 1/2 / 2 = 1 came back as
\* the same order.
C26_Witness ==
    /\ riskOut.called
    /\ riskIn.order.fields.side = BUY
    /\ riskIn.order.fields.price = Num(2)
    /\ riskIn.equity = Num(4)
    /\ riskIn.rm.max_position_pct = Rat(1, 2)
    /\ riskIn.order.fields.quantity = Num(1)
    /\ SameOrder

----------------------------------------------------------------------------
(* Properties of the backtester (SpecBacktest) *)

BacktestReturned == btOut.called /\ btOut.result.raised = "none"

\* C22 as stated: whenever run returns for at least two candles, the
\* equity_curve has one entry per candle, starts at initial_cash and ends
\* at final_equity.
C22_CurveFromCashToFinalEquity ==
    (BacktestReturned /\ Len(btIn.candles) >= 2) =>
        /\ Len(btOut.result.equity_curve) = Len(btIn.candles)
        /\ btOut.result.equity_curve[1] = btIn.initial_cash
        /\ btOut.result.equity_curve[Len(btIn.candles)] =
              btOut.result.final_equity

\* C22, amended: whenever run returns for at least two candles, the
\* equity_curve has one entry per candle, starts at initial_cash *
\* (1 - transaction_cost_pct/100) / (1 + slippage_pct/100), and
\* final_equity is its last entry * (1 - slippage_pct/100) *
\* (1 - transaction_cost_pct/100); with the default cost and slippage of 0
\* the curve starts at initial_cash and ends at final_equity.
C22_CurveFromCashToFinalEquityNetOfCosts ==
    (BacktestReturned /\ Len(btIn.candles) >= 2) =>
        /\ Len(btOut.result.equity_curve) = Len(btIn.candles)
        /\ btOut.result.equity_curve[1] =
              RDiv(RMul(btIn.initial_cash, LessPct(btIn.transaction_cost_pct)),
                   RAdd(One, RDiv(btIn.slippage_pct, Num(100))))
        /\ btOut.result.final_equity =
              RMul(RMul(btOut.result.equity_curve[Len(btIn.candles)],
                        LessPct(btIn.slippage_pct)),
                   LessPct(btIn.transaction_cost_pct))
        /\ (btIn.transaction_cost_pct = Zero /\ btIn.slippage_pct = Zero) =>
              /\ btOut.result.equity_curve[1] = btIn.initial_cash
              /\ btOut.result.equity_curve[Len(btIn.candles)] =
                    btOut.result.final_equity

\* A run on three candles with a cost and a slippage returned.
C22_Witness ==
    /\ BacktestReturned
    /\ Len(btIn.candles) = 3
    /\ btIn.transaction_cost_pct = Num(50)
    /\ btIn.slippage_pct = Num(50)
    /\ btOut.result.equity_curve[1] # btIn.initial_cash

----------------------------------------------------------------------------
(* Properties of the research functions (SpecResearch) *)

\* The fold positions 0, step, 2 step, ... with pos + T + U <= n.
RECURSIVE FoldPositions(_, _, _, _)
FoldPositions(n, span, step_size, pos) ==
    IF pos + span > n THEN <<>>
    ELSE <<pos>> \o FoldPositions(n, span, step_size, pos + step_size)

WalkAccepted ==
    /\ resOut.called
    /\ resIn.fn = "walk_forward_analysis"
    /\ resIn.train_size >= 2
    /\ resIn.test_size >= 2
    /\ resIn.step_size >= 1
    /\ Len(resIn.candles) >= resIn.train_size + resIn.test_size

\* C24: for arguments it accepts, walk_forward_analysis terminates and
\* returns one window for each position pos = 0, step, 2 step, ... with
\* pos + T + U <= n, and evaluates the backtester on no other fold.
C24_FoldsAtStepPositions ==
    WalkAccepted =>
        /\ resOut.result.raised = "none"
        /\ resOut.result.positions =
              FoldPositions(Len(resIn.candles),
                            resIn.train_size + resIn.test_size,
                            resIn.step_size, 0)
        /\ Len(resOut.result.windows) = Len(resOut.result.positions)

WalkFolds ==
    FoldPositions(Len(resIn.candles), resIn.train_size + resIn.test_size,
                  resIn.step_size, 0)

\* The regime windows analyze_strategy cuts, when it accepts its arguments.
RegimeWindows ==
    IF resIn.window_size < 2 \/ Len(resIn.candles) < resIn.window_size
    THEN <<>>
    ELSE SplitFrom(resIn.candles, resIn.window_size, 0, <<>>)

\* C23: a Bessel-corrected sample variance taken over one value is 0.0 and
\* nothing is raised: Monte Carlo sharpe_variance with simulations = 1,
\* walk-forward test_sharpe_variance with exactly one fold, and stability
\* sharpe_variance with exactly one regime window.
C23_VarianceOfOneValueIsZero ==
    /\ (/\ resOut.called
        /\ resIn.fn = "analyze"
        /\ resIn.simulations = 1
        /\ resOut.result.raised = "none")
       => resOut.result.sharpe_variance = Zero
    /\ (WalkAccepted /\ Len(WalkFolds) = 1)
       => /\ resOut.result.raised = "none"
          /\ resOut.result.test_sharpe_variance = Zero
    /\ (/\ resOut.called
        /\ resIn.fn = "analyze_strategy"
        /\ Len(RegimeWindows) = 1)
       => /\ resOut.result.raised = "none"
          /\ resOut.result.sharpe_variance = Zero

\* What analyze returns in returns mode for the arguments and the seed of
\* the call.
ReturnsModeResult ==
    MonteCarloAnalyze(resIn.initial_cash, resIn.seed,
                      [resIn EXCEPT !.mode = "returns"])

ZeroStdExecution ==
    /\ resOut.called
    /\ resIn.fn = "analyze"
    /\ resIn.mode = "execution"
    /\ resIn.seed # <<>>
    /\ resIn.slippage_std = Zero
    /\ resIn.shock_std = Zero

\* C25: with a seed, execution mode with slippage_std = 0 and shock_std = 0
\* makes no normal draws, leaves the generator where returns mode leaves it,
\* and returns what returns mode returns for the same seed, returns series
\* and number of simulations.
C25_ZeroStdExecutionIsReturnsMode ==
    ZeroStdExecution =>
        /\ resOut.result = ReturnsModeResult
        /\ resOut.result.raised = "none" => resOut.result.rng.normals = 0

C25_Witness ==
    /\ ZeroStdExecution
    /\ resOut.result.raised = "none"
    /\ resIn.simulations = 2
    /\ resOut.result.simulations_results[1] #
           resOut.result.simulations_results[2]

----------------------------------------------------------------------------
(* Properties of two engines with the same arguments (SpecTwin) *)

====
